---- MODULE Spec2Model ----
(***************************************************************************)
(* Sirr: the secret store behind the HTTP handlers of sirr-server.         *)
(*                                                                         *)
(* The handlers (handlers.rs) and the record predicates (store/model.rs)   *)
(* are translated from the source.  The store itself (store/db.rs) is not  *)
(* part of the source tree at hand; its operations (StorePut, StoreGet,   *)
(* ...) are modelled from section 4.2 of the specification.               *)
(***************************************************************************)
EXTENDS Integers, Sequences, FiniteSets, TLC

VARIABLES
    secrets,    \* the secrets table: key -> SecretRecord (domain = stored keys)
    now,        \* the wall clock, Unix seconds
    license,    \* AppState.license
    validator,  \* AppState.validator is Some(..)
    audit,      \* the audit events appended by the latest request
    resp,       \* the response to the latest request
    hist,       \* per key, the reads served to the record of the latest put
    writer,     \* the client holding the store's write transaction, if any
    txn,        \* per client, the get it has in flight
    keyfile,    \* the key held in sirr.key
    keygen,     \* the number of keys generated and put to use so far
    rot,        \* the rotate command between Store::rotate and the write of sirr.key
    webhooks,   \* the webhooks table: id -> WebhookRegistration
    posts,      \* the deliveries the latest call of the webhook sender spawned
    sender,     \* WebhookSender: per_secret_signing_key, allowed_origins
    api_key,    \* AppState.api_key
    audit_faulty,       \* the audit table can refuse an append
    audit_table,        \* the audit table: seq -> AuditEvent, as far as it is followed
    trusted_proxies,    \* AppState.trusted_proxies
    redact_audit_keys   \* AppState.redact_audit_keys

(* The audit table and the configuration of the audit trail.  No handler   *)
(* of the secrets reads them; the table is followed by SpecLog only.       *)
log == <<audit_table, trusted_proxies, redact_audit_keys>>

(* What the handlers of the secrets never touch. *)
ext == <<keyfile, keygen, rot, webhooks, posts, sender, api_key, audit_faulty, log>>

InitLog == audit_table = <<>> /\ trusted_proxies = {} /\ redact_audit_keys = FALSE

vars == <<secrets, now, license, validator, audit, resp, hist, writer, txn, ext>>

----------------------------------------------------------------------------
(* Bounds of the model.                                                    *)

MaxTime == 2        \* the clock runs over 0..MaxTime
MaxTtl == 1         \* ttl_seconds of a request ranges over 0..MaxTtl
MaxN == 2           \* max_reads of a request ranges over 0..MaxN
MaxGets == 3        \* gets counted per record
MaxRotations == 2   \* rotations run on one data directory
MaxRegs == 1        \* webhook registrations stored while the SSRF guard is exercised
MaxSubs == 2        \* webhook registrations stored while events are fired
MaxAudit == 2       \* audit entries appended while the audit table is followed

Keys == {"a", "b"}
ThirdKey == "c"     \* a key for the instance that is filled past the free tier
AllKeys == Keys \cup {ThirdKey}
EmptyKey == ""
LongKey == "k257"
Values == {"v1", "v2"}
BigValue == "v1MiB+1"
Clients == {"c1", "c2"}

(* Option<T> is a sequence of length 0 or 1.                               *)
None == <<>>
Some(x) == <<x>>
IsSome(o) == o # <<>>
Unwrap(o) == o[1]

OptNat(n) == {None} \cup {Some(i) : i \in 0..n}

(* String::len() of the request strings the model draws.                   *)
StrLen(s) ==
    CASE s = EmptyKey -> 0
      [] s = LongKey -> 257
      [] s = BigValue -> 1048577
      [] OTHER -> 2

----------------------------------------------------------------------------
(* store/model.rs                                                          *)

(* is_expired with the comparison made strict. *)
is_expired_strict(r, t) == IsSome(r.expires_at) /\ t > Unwrap(r.expires_at)

is_expired(r, t) == IsSome(r.expires_at) /\ t >= Unwrap(r.expires_at)

(* is_burned without the test of the delete flag. *)
is_burned_any(r) == IsSome(r.max_reads) /\ r.read_count >= Unwrap(r.max_reads)

is_burned(r) ==
    r.delete /\ IsSome(r.max_reads) /\ r.read_count >= Unwrap(r.max_reads)

(* is_sealed with the delete flag tested as in is_burned. *)
is_sealed_as_burned(r) ==
    r.delete /\ IsSome(r.max_reads) /\ r.read_count >= Unwrap(r.max_reads)

(* is_sealed with the comparison made strict. *)
is_sealed_strict(r) ==
    ~r.delete /\ IsSome(r.max_reads) /\ r.read_count > Unwrap(r.max_reads)

is_sealed(r) ==
    ~r.delete /\ IsSome(r.max_reads) /\ r.read_count >= Unwrap(r.max_reads)

SecretMeta(k, r) ==
    [key |-> k, created_at |-> r.created_at, expires_at |-> r.expires_at,
     max_reads |-> r.max_reads, read_count |-> r.read_count, delete |-> r.delete]

----------------------------------------------------------------------------
(* The store (section 4.2 of the specification).  Every operation maps the *)
(* table at the start of its transaction to the table it commits and its   *)
(* result.                                                                 *)

(* The key the daemon loaded from sirr.key when it started; the daemon     *)
(* does not run while the key file is being replaced.                      *)
EncKey == keyfile

encrypt(key, plaintext) == [under |-> key, plaintext |-> plaintext]

decrypt(key, ct) == IF ct.under = key THEN Some(ct.plaintext) ELSE None

Remove(tbl, k) == [x \in DOMAIN tbl \ {k} |-> tbl[x]]

Insert(tbl, k, r) == [x \in DOMAIN tbl \cup {k} |-> IF x = k THEN r ELSE tbl[x]]

Max(x, y) == IF x >= y THEN x ELSE y

(* The largest key_version tag of the records, 0 for an empty table.       *)
max_key_version(tbl) ==
    IF DOMAIN tbl = {} THEN 0
    ELSE CHOOSE v \in {tbl[k].key_version : k \in DOMAIN tbl} :
            \A k \in DOMAIN tbl : tbl[k].key_version <= v

StorePut(tbl, key, value, ttl, max_reads, delete, t) ==
    Insert(tbl, key,
           [value_encrypted |-> encrypt(EncKey, value),
            key_version |-> Max(1, max_key_version(tbl)),
            created_at |-> t,
            expires_at |-> IF IsSome(ttl) THEN Some(t + Unwrap(ttl)) ELSE None,
            max_reads |-> max_reads,
            read_count |-> 0,
            delete |-> delete])

StoreGet(tbl, key, t) ==
    IF key \notin DOMAIN tbl
    THEN [tbl |-> tbl, kind |-> "NotFound", value |-> None]
    ELSE LET r == tbl[key] IN
         IF is_expired(r, t)
         THEN [tbl |-> Remove(tbl, key), kind |-> "NotFound", value |-> None]
         ELSE IF is_sealed(r)
         THEN [tbl |-> tbl, kind |-> "Sealed", value |-> None]
         ELSE LET plaintext == decrypt(EncKey, r.value_encrypted)
                  r2 == [r EXCEPT !.read_count = @ + 1]
              IN  IF plaintext = None
                  THEN [tbl |-> tbl, kind |-> "Err", value |-> None]
                  ELSE IF is_burned(r2)
                  THEN [tbl |-> Remove(tbl, key), kind |-> "Burned",
                        value |-> plaintext]
                  ELSE [tbl |-> Insert(tbl, key, r2), kind |-> "Value",
                        value |-> plaintext]

(* StoreHead that counts the access as a read. *)
StoreHeadCounting(tbl, key, t) ==
    IF key \notin DOMAIN tbl
    THEN [tbl |-> tbl, found |-> None]
    ELSE LET r == [tbl[key] EXCEPT !.read_count = @ + 1] IN
         IF is_expired(r, t)
         THEN [tbl |-> Remove(tbl, key), found |-> None]
         ELSE [tbl |-> Insert(tbl, key, r),
               found |-> Some([meta |-> SecretMeta(key, r), sealed |-> is_sealed(r)])]

StoreHead(tbl, key, t) ==
    IF key \notin DOMAIN tbl
    THEN [tbl |-> tbl, found |-> None]
    ELSE LET r == tbl[key] IN
         IF is_expired(r, t)
         THEN [tbl |-> Remove(tbl, key), found |-> None]
         ELSE [tbl |-> tbl,
               found |-> Some([meta |-> SecretMeta(key, r), sealed |-> is_sealed(r)])]

(* PatchRequest.ttl_seconds is an Option<u64>: a JSON null and a missing   *)
(* field both arrive as None.  The specification lets a null clear the TTL *)
(* and a missing field keep it, so both outcomes of None are modelled      *)
(* (clear_ttl).                                                            *)
StorePatch(tbl, key, value, max_reads, ttl, clear_ttl, t) ==
    IF key \notin DOMAIN tbl
    THEN [tbl |-> tbl, kind |-> "None", meta |-> None]
    ELSE LET r == tbl[key] IN
         IF is_expired(r, t)
         THEN [tbl |-> Remove(tbl, key), kind |-> "None", meta |-> None]
         ELSE IF r.delete
         THEN [tbl |-> tbl, kind |-> "cannot patch", meta |-> None]
         ELSE LET r2 ==
                    [r EXCEPT
                       !.value_encrypted =
                           IF IsSome(value) THEN encrypt(EncKey, Unwrap(value)) ELSE @,
                       !.max_reads = IF IsSome(max_reads) THEN max_reads ELSE @,
                       !.expires_at =
                           IF IsSome(ttl) THEN Some(t + Unwrap(ttl))
                           ELSE IF clear_ttl THEN None ELSE @]
              IN  [tbl |-> Insert(tbl, key, r2), kind |-> "Some",
                   meta |-> Some(SecretMeta(key, r2))]

(* rotate: in one write transaction every record is decrypted with the     *)
(* loaded key and written back under new_key with new_version; a record    *)
(* that does not decrypt aborts the transaction.                           *)

(* Reencrypt that also restarts the record's read count. *)
ReencryptFresh(r, old_key, new_key, new_version) ==
    [r EXCEPT !.value_encrypted = encrypt(new_key, Unwrap(decrypt(old_key, @))),
              !.key_version = new_version,
              !.read_count = 0]

Reencrypt(r, old_key, new_key, new_version) ==
    [r EXCEPT !.value_encrypted = encrypt(new_key, Unwrap(decrypt(old_key, @))),
              !.key_version = new_version]

(* StoreRotate that keeps the records it has re-encrypted when a later one *)
(* fails to decrypt.                                                       *)
StoreRotatePartial(tbl, old_key, new_key, new_version) ==
    LET bad == {k \in DOMAIN tbl : decrypt(old_key, tbl[k].value_encrypted) = None}
    IN  [tbl |-> [k \in DOMAIN tbl |->
                    IF k \in bad THEN tbl[k]
                    ELSE Reencrypt(tbl[k], old_key, new_key, new_version)],
         ok |-> bad = {},
         count |-> Cardinality(DOMAIN tbl \ bad)]

StoreRotate(tbl, old_key, new_key, new_version) ==
    IF \E k \in DOMAIN tbl : decrypt(old_key, tbl[k].value_encrypted) = None
    THEN [tbl |-> tbl, ok |-> FALSE, count |-> 0]
    ELSE [tbl |-> [k \in DOMAIN tbl |->
                    Reencrypt(tbl[k], old_key, new_key, new_version)],
          ok |-> TRUE,
          count |-> Cardinality(DOMAIN tbl)]

StoreDelete(tbl, key) ==
    [tbl |-> Remove(tbl, key), existed |-> key \in DOMAIN tbl]

StoreList(tbl, t) ==
    {SecretMeta(k, tbl[k]) : k \in {x \in DOMAIN tbl : ~is_expired(tbl[x], t)}}

(* Prunable that leaves the expired records to the lazy deletion of get. *)
PrunableBurned(tbl, t) == {k \in DOMAIN tbl : is_burned(tbl[k])}

Prunable(tbl, t) == {k \in DOMAIN tbl : is_expired(tbl[k], t) \/ is_burned(tbl[k])}

StorePrune(tbl, t) ==
    [tbl |-> [x \in DOMAIN tbl \ Prunable(tbl, t) |-> tbl[x]],
     count |-> Cardinality(Prunable(tbl, t))]

----------------------------------------------------------------------------
(* Program constants.                                                      *)

MAX_KEY_LEN == 256
KEY_VERSION_MAX == 255      \* the key version is one byte
MAX_VALUE_LEN == 1048576
FREE_TIER_LIMIT == 2

----------------------------------------------------------------------------
(* Bookkeeping of the model (not program state): for each key, the reads   *)
(* served to the record of the latest put for as long as that record is    *)
(* neither patched, deleted, pruned nor removed as expired.                *)

Tracked(k) == IsSome(hist[k])

H(k) == Unwrap(hist[k])

Track(value, max_reads, delete) ==
    Some([value |-> value, max_reads |-> max_reads, delete |-> delete,
          gets |-> 0, plain |-> 0])

HistGet(key, kind, swept) ==
    IF kind = "Err" THEN hist
    ELSE IF ~Tracked(key) \/ swept
    THEN [hist EXCEPT ![key] = None]
    ELSE [hist EXCEPT ![key] =
            Some([Unwrap(@) EXCEPT
                    !.gets = @ + 1,
                    !.plain = IF kind \in {"Value", "Burned"} THEN @ + 1 ELSE @])]

HistDrop(ks) == [k \in AllKeys |-> IF k \in ks THEN None ELSE hist[k]]

(* The keys an operation removed from the table. *)
Removed(tbl) == DOMAIN secrets \ DOMAIN tbl

----------------------------------------------------------------------------
(* store/audit.rs: AuditEvent::new and Store::record_audit.                *)

AuditEvent(action, key, success, detail) ==
    [timestamp |-> now, action |-> action, key |-> key, success |-> success,
     detail |-> detail]

(* Store::record_audit appends the event in a transaction of its own and   *)
(* returns whether it did.                                                 *)
StoreRecordAudit(ev, ok) == audit' = IF ok THEN <<ev>> ELSE <<>>

AuditOutcomes == IF audit_faulty THEN BOOLEAN ELSE {TRUE}

(* record_audit whose failure ends the handler. *)
record_audit_or_fail(ev) == \E ok \in AuditOutcomes : ok /\ StoreRecordAudit(ev, ok)

(* let _ = state.store.record_audit(..): the handlers drop the result.     *)
record_audit(ev) == \E ok \in AuditOutcomes : StoreRecordAudit(ev, ok)

Response(op, key, status, kind, value, body) ==
    [op |-> op, key |-> key, status |-> status, kind |-> kind, value |-> value,
     body |-> body]

----------------------------------------------------------------------------
(* handlers.rs                                                             *)

Idle == writer = None

(* body.delete.unwrap_or(true)                                             *)
unwrap_or_true(delete) == IF IsSome(delete) THEN Unwrap(delete) ELSE TRUE

(* PatchErrorStatus looking for another message than the store's. *)
PatchErrorOther(msg) == IF msg = "conflict" THEN 409 ELSE 500

(* patch_secret, Err(e): 409 when the message contains "cannot patch",     *)
(* otherwise internal_error.                                               *)
PatchErrorStatus(msg) == IF msg = "cannot patch" THEN 409 ELSE 500

(* The free-tier gate that lets the instance grow one past the limit. *)
over_free_tier_limit(metas) == Cardinality(metas) > FREE_TIER_LIMIT

(* create_secret: Ok(metas) if metas.len() >= FREE_TIER_LIMIT              *)
at_free_tier_limit(metas) == Cardinality(metas) >= FREE_TIER_LIMIT

create_secret(key, value, ttl_seconds, max_reads, delete, valid) ==
    /\ Idle
    /\ UNCHANGED <<now, license, validator, ext, writer, txn>>
    /\ IF StrLen(key) = 0 \/ StrLen(key) > MAX_KEY_LEN
       THEN /\ resp' = Response("create", Some(key), 400, "key must be 1-256 characters",
                                None, None)
            /\ audit' = <<>>
            /\ UNCHANGED <<secrets, hist>>
       ELSE IF StrLen(value) > MAX_VALUE_LEN
       THEN /\ resp' = Response("create", Some(key), 400, "value exceeds 1 MiB limit",
                                None, None)
            /\ audit' = <<>>
            /\ UNCHANGED <<secrets, hist>>
       ELSE IF /\ at_free_tier_limit(StoreList(secrets, now))
               /\ license = "Free"
       THEN /\ record_audit(AuditEvent("secret.create", Some(key), FALSE,
                                       Some("free tier limit reached")))
            /\ resp' = Response("create", Some(key), 402, "free tier limit", None, None)
            /\ UNCHANGED <<secrets, hist>>
       ELSE IF /\ at_free_tier_limit(StoreList(secrets, now))
               /\ validator /\ ~valid
       THEN /\ record_audit(AuditEvent("secret.create", Some(key), FALSE,
                                       Some("license validation failed")))
            /\ resp' = Response("create", Some(key), 402, "license validation failed",
                                None, None)
            /\ UNCHANGED <<secrets, hist>>
       ELSE LET del == unwrap_or_true(delete) IN
            /\ secrets' = StorePut(secrets, key, value, ttl_seconds, max_reads,
                                   del, now)
            /\ record_audit(AuditEvent("secret.create", Some(key), TRUE, None))
            /\ resp' = Response("create", Some(key), 201, "created", None, None)
            /\ hist' = [hist EXCEPT ![key] = Track(value, max_reads, del)]

(* create_secret as the two calls it makes to the store, which other       *)
(* requests can come between: the checks and the license gate with         *)
(* Store::list, then Store::put with the audit event and the response.     *)
create_check(c, r, valid) ==
    /\ txn[c] = None
    /\ Idle
    /\ UNCHANGED <<secrets, hist, now, license, validator, ext, writer>>
    /\ IF StrLen(r.key) = 0 \/ StrLen(r.key) > MAX_KEY_LEN
       THEN /\ resp' = Response("create", Some(r.key), 400, "key must be 1-256 characters",
                                None, None)
            /\ audit' = <<>>
            /\ UNCHANGED txn
       ELSE IF StrLen(r.value) > MAX_VALUE_LEN
       THEN /\ resp' = Response("create", Some(r.key), 400, "value exceeds 1 MiB limit",
                                None, None)
            /\ audit' = <<>>
            /\ UNCHANGED txn
       ELSE IF /\ at_free_tier_limit(StoreList(secrets, now))
               /\ license = "Free"
       THEN /\ record_audit(AuditEvent("secret.create", Some(r.key), FALSE,
                                       Some("free tier limit reached")))
            /\ resp' = Response("create", Some(r.key), 402, "free tier limit", None, None)
            /\ UNCHANGED txn
       ELSE IF /\ at_free_tier_limit(StoreList(secrets, now))
               /\ validator /\ ~valid
       THEN /\ record_audit(AuditEvent("secret.create", Some(r.key), FALSE,
                                       Some("license validation failed")))
            /\ resp' = Response("create", Some(r.key), 402, "license validation failed",
                                None, None)
            /\ UNCHANGED txn
       ELSE /\ txn' = [txn EXCEPT ![c] = Some([req |-> r])]
            /\ UNCHANGED <<resp, audit>>

create_put(c) ==
    /\ txn[c] # None
    /\ Idle
    /\ LET r == Unwrap(txn[c]).req
           del == unwrap_or_true(r.delete)
       IN  /\ secrets' = StorePut(secrets, r.key, r.value, r.ttl_seconds, r.max_reads,
                                  del, now)
           /\ record_audit(AuditEvent("secret.create", Some(r.key), TRUE, None))
           /\ resp' = Response("create", Some(r.key), 201, "created", None, None)
           /\ hist' = [hist EXCEPT ![r.key] = Track(r.value, r.max_reads, del)]
    /\ txn' = [txn EXCEPT ![c] = None]
    /\ UNCHANGED <<now, license, validator, ext, writer>>

GetStatus(kind) ==
    CASE kind \in {"Value", "Burned"} -> 200
      [] kind = "Sealed" -> 410
      [] kind = "NotFound" -> 404
      [] kind = "Err" -> 500

GetAudit(key, kind) ==
    CASE kind = "Value" -> AuditEvent("secret.read", Some(key), TRUE, None)
      [] kind = "Burned" -> AuditEvent("secret.burned", Some(key), TRUE, None)
      [] kind = "Sealed" -> AuditEvent("secret.read", Some(key), FALSE, Some("sealed"))
      [] kind = "NotFound" ->
            AuditEvent("secret.read", Some(key), FALSE, Some("not found or expired"))

(* The counters of the model are capped: a get is taken while fewer than   *)
(* MaxGets gets were counted for the record.                               *)
(* Err(e) => internal_error(e): no audit event.                            *)
AuditGet(key, kind) ==
    IF kind = "Err" THEN audit' = <<>> ELSE record_audit(GetAudit(key, kind))

GetCounted(key) ==
    /\ Tracked(key) => Unwrap(hist[key]).gets < MaxGets
    /\ key \in DOMAIN secrets => secrets[key].read_count < MaxGets

get_secret(key) ==
    /\ Idle
    /\ GetCounted(key)
    /\ LET g == StoreGet(secrets, key, now) IN
       /\ secrets' = g.tbl
       /\ AuditGet(key, g.kind)
       /\ resp' = Response("get", Some(key), GetStatus(g.kind), g.kind, g.value, None)
       /\ hist' = HistGet(key, g.kind, g.kind = "NotFound" /\ key \in DOMAIN secrets)
    /\ UNCHANGED <<now, license, validator, ext, writer, txn>>

(* The same get as two steps of one client: Store::get opens the write    *)
(* transaction and loads the record (get_begin), then applies the read to  *)
(* what it loaded, writes the outcome, commits and answers (get_commit).   *)
(* begin_write waits while another write transaction is open.              *)
begin_write(c) == writer = None /\ writer' = Some(c)

Loaded(key) == IF key \in DOMAIN secrets THEN Some(secrets[key]) ELSE None

get_begin(c, key) ==
    /\ txn[c] = None
    /\ GetCounted(key)
    /\ begin_write(c)
    /\ txn' = [txn EXCEPT ![c] = Some([key |-> key, rec |-> Loaded(key), at |-> now])]
    /\ UNCHANGED <<secrets, now, license, validator, ext, audit, resp, hist>>

get_commit(c) ==
    /\ IsSome(txn[c])
    /\ LET key == Unwrap(txn[c]).key
           rec == Unwrap(txn[c]).rec
           g == StoreGet(IF IsSome(rec) THEN Insert(<< >>, key, Unwrap(rec)) ELSE << >>,
                         key, Unwrap(txn[c]).at)
       IN  /\ secrets' = IF key \in DOMAIN g.tbl
                         THEN Insert(secrets, key, g.tbl[key])
                         ELSE Remove(secrets, key)
           /\ AuditGet(key, g.kind)
           /\ resp' = Response("get", Some(key), GetStatus(g.kind), g.kind, g.value, None)
           /\ hist' = HistGet(key, g.kind, g.kind = "NotFound" /\ IsSome(rec))
    /\ writer' = None
    /\ txn' = [txn EXCEPT ![c] = None]
    /\ UNCHANGED <<now, license, validator, ext>>

HeadHeaders(meta, sealed) ==
    [read_count |-> meta.read_count,
     reads_remaining |->
        IF IsSome(meta.max_reads)
        THEN IF Unwrap(meta.max_reads) >= meta.read_count
             THEN Some(Unwrap(meta.max_reads) - meta.read_count) ELSE Some(0)
        ELSE None,
     delete |-> meta.delete,
     created_at |-> meta.created_at,
     expires_at |-> meta.expires_at,
     status |-> IF sealed THEN "sealed" ELSE "active"]

head_secret(key) ==
    /\ Idle
    /\ LET h == StoreHead(secrets, key, now) IN
       /\ secrets' = h.tbl
       /\ hist' = HistDrop(Removed(h.tbl))
       /\ IF IsSome(h.found)
          THEN LET f == Unwrap(h.found) IN
               /\ record_audit(AuditEvent("secret.read", Some(key), TRUE,
                       Some(IF f.sealed THEN "head;sealed" ELSE "head")))
               /\ resp' = Response("head", Some(key), IF f.sealed THEN 410 ELSE 200,
                                   IF f.sealed THEN "sealed" ELSE "active", None,
                                   HeadHeaders(f.meta, f.sealed))
          ELSE /\ record_audit(AuditEvent("secret.read", Some(key), FALSE,
                       Some("head;not found or expired")))
               /\ resp' = Response("head", Some(key), 404, "not found or expired", None, None)
    /\ UNCHANGED <<now, license, validator, ext, writer, txn>>

patch_secret(key, value, max_reads, ttl_seconds, clear_ttl) ==
    /\ Idle
    /\ UNCHANGED <<now, license, validator, ext, writer, txn>>
    /\ IF IsSome(value) /\ StrLen(Unwrap(value)) > MAX_VALUE_LEN
       THEN /\ resp' = Response("patch", Some(key), 400, "value exceeds 1 MiB limit",
                                None, None)
            /\ audit' = <<>>
            /\ UNCHANGED <<secrets, hist>>
       ELSE LET p == StorePatch(secrets, key, value, max_reads, ttl_seconds,
                                clear_ttl, now) IN
            /\ secrets' = p.tbl
            /\ CASE p.kind = "Some" ->
                      /\ record_audit(AuditEvent("secret.patch", Some(key), TRUE, None))
                      /\ resp' = Response("patch", Some(key), 200, "patched", None,
                                          Unwrap(p.meta))
                      /\ hist' = HistDrop({key})
                 [] p.kind = "None" ->
                      /\ record_audit(AuditEvent("secret.patch", Some(key), FALSE,
                                                 Some("not found or expired")))
                      /\ resp' = Response("patch", Some(key), 404, "not found or expired",
                                          None, None)
                      /\ hist' = HistDrop(Removed(p.tbl))
                 [] p.kind = "cannot patch" ->
                      /\ record_audit(AuditEvent("secret.patch", Some(key), FALSE,
                                                 Some("conflict: delete=true")))
                      /\ resp' = Response("patch", Some(key), PatchErrorStatus(p.kind),
                                          p.kind, None, None)
                      /\ UNCHANGED hist

delete_secret(key) ==
    /\ Idle
    /\ LET d == StoreDelete(secrets, key) IN
       /\ secrets' = d.tbl
       /\ hist' = HistDrop({key})
       /\ IF d.existed
          THEN /\ record_audit(AuditEvent("secret.delete", Some(key), TRUE, None))
               /\ resp' = Response("delete", Some(key), 200, "deleted", None, None)
          ELSE /\ record_audit(AuditEvent("secret.delete", Some(key), FALSE,
                                          Some("not found")))
               /\ resp' = Response("delete", Some(key), 404, "not found", None, None)
    /\ UNCHANGED <<now, license, validator, ext, writer, txn>>

list_secrets ==
    /\ LET metas == StoreList(secrets, now) IN
       /\ record_audit(AuditEvent("secret.list", None, TRUE,
                                  Some(Cardinality(metas))))
       /\ resp' = Response("list", None, 200, "secrets", None, metas)
    /\ UNCHANGED <<secrets, hist, now, license, validator, ext, writer, txn>>

prune_secrets ==
    /\ Idle
    /\ LET p == StorePrune(secrets, now) IN
       /\ secrets' = p.tbl
       /\ hist' = HistDrop(Removed(p.tbl))
       /\ record_audit(AuditEvent("secret.prune", None, TRUE, Some(p.count)))
       /\ resp' = Response("prune", None, 200, "pruned", None, p.count)
    /\ UNCHANGED <<now, license, validator, ext, writer, txn>>

----------------------------------------------------------------------------
(* The background sweep (server.rs, run: store.spawn_sweep) and the clock. *)

sweep ==
    /\ Idle
    /\ LET p == StorePrune(secrets, now) IN
       /\ secrets' = p.tbl
       /\ hist' = HistDrop(Removed(p.tbl))
    /\ UNCHANGED <<now, license, validator, ext, audit, resp, writer, txn>>

Tick ==
    /\ now < MaxTime
    /\ now' = now + 1
    /\ UNCHANGED <<secrets, license, validator, ext, audit, resp, hist, writer, txn>>

----------------------------------------------------------------------------
(* sirrd/src/main.rs: the rotate command.  It runs while the daemon is     *)
(* stopped (it needs the database to itself), in two steps: everything up  *)
(* to the return of Store::rotate, then the write of sirr.key.  The        *)
(* process can be killed in between.                                       *)

(* generate_key(): a key that was never in use. *)
generate_key == keygen + 1

(* checked_add(1) that wraps around instead of failing. *)
checked_add_wrapping(version) == Some((version + 1) % (KEY_VERSION_MAX + 1))

(* current_version.checked_add(1) *)
checked_add_1(version) ==
    IF version + 1 > KEY_VERSION_MAX THEN None ELSE Some(version + 1)

Exit(code, message, body) == Response("rotate", None, code, message, None, body)

(* What the file system answers to the command before it reaches the      *)
(* store: sirr.key is read and holds a key, cannot be read, or does not    *)
(* hold 32 bytes; sirr.db opens or does not.                               *)
RotateIo == {"ok", "read sirr.key", "sirr.key is corrupt", "open store"}

(* cmd_rotate that writes sirr.key before it calls Store::rotate. *)
cmd_rotate_key_first(io) ==
    /\ rot = None /\ writer = None
    /\ IF io # "ok"
       THEN /\ resp' = Exit(1, io, None)
            /\ UNCHANGED <<secrets, keygen, rot, keyfile>>
       ELSE
       LET old_key == keyfile
           current_version == max_key_version(secrets)
           new_version == checked_add_1(current_version)
       IN  IF new_version = None
           THEN /\ resp' = Exit(1, "key version overflow (max 255 rotations)", None)
                /\ UNCHANGED <<secrets, keygen, rot, keyfile>>
           ELSE LET new_key == generate_key
                    r == StoreRotate(secrets, old_key, new_key, Unwrap(new_version))
                IN  /\ keyfile' = new_key
                    /\ keygen' = new_key
                    /\ secrets' = r.tbl
                    /\ rot' = None
                    /\ resp' = IF r.ok THEN Exit(0, "rotated",
                                                 Some([count |-> r.count,
                                                       version |-> Unwrap(new_version)]))
                               ELSE Exit(1, "rotate failed", None)
    /\ UNCHANGED <<now, license, validator, audit, hist, writer, txn,
                   webhooks, posts, sender, api_key, audit_faulty, log>>

(* cmd_rotate up to the return of Store::rotate. *)
cmd_rotate(io) ==
    /\ rot = None /\ writer = None
    /\ IF io # "ok"
       THEN /\ resp' = Exit(1, io, None)
            /\ UNCHANGED <<secrets, keygen, rot, keyfile>>
       ELSE
       LET old_key == keyfile
           current_version == max_key_version(secrets)
           new_version == checked_add_1(current_version)
       IN  IF new_version = None
           THEN /\ resp' = Exit(1, "key version overflow (max 255 rotations)", None)
                /\ UNCHANGED <<secrets, keygen, rot, keyfile>>
           ELSE LET new_key == generate_key
                    r == StoreRotate(secrets, old_key, new_key, Unwrap(new_version))
                IN  IF r.ok
                    THEN /\ secrets' = r.tbl
                         /\ keygen' = new_key
                         /\ rot' = Some([key |-> new_key,
                                         version |-> Unwrap(new_version),
                                         count |-> r.count])
                         /\ resp' = Exit(0, "running", None)
                         /\ UNCHANGED keyfile
                    ELSE /\ secrets' = r.tbl
                         /\ resp' = Exit(1, "rotate failed", None)
                         /\ UNCHANGED <<keygen, rot, keyfile>>
    /\ UNCHANGED <<now, license, validator, audit, hist, writer, txn,
                   webhooks, posts, sender, api_key, audit_faulty, log>>

cmd_rotate_store == \E io \in RotateIo : cmd_rotate(io)

cmd_rotate_write_key ==
    /\ rot # None
    /\ keyfile' = Unwrap(rot).key
    /\ rot' = None
    /\ resp' = Exit(0, "rotated",
                    Some([count |-> Unwrap(rot).count, version |-> Unwrap(rot).version]))
    /\ UNCHANGED <<secrets, now, license, validator, audit, hist, writer, txn, keygen,
                   webhooks, posts, sender, api_key, audit_faulty, log>>

(* The process is killed after Store::rotate committed and before sirr.key *)
(* is written.                                                             *)
cmd_rotate_killed ==
    /\ rot # None
    /\ rot' = None
    /\ resp' = Exit(1, "killed", None)
    /\ UNCHANGED <<secrets, now, license, validator, audit, hist, writer, txn, keyfile,
                   keygen, webhooks, posts, sender, api_key, audit_faulty, log>>

----------------------------------------------------------------------------
(* webhooks.rs: the SSRF guard.                                            *)
(*                                                                         *)
(* A URL is the sequence of the pieces of its text: the scheme, "://", the *)
(* pieces of the host, the path.  An allowed origin is such a sequence     *)
(* too, and str::starts_with is the prefix relation on them.               *)

Url(scheme, host, path) == <<scheme, "://">> \o host \o <<path>>

Origin(scheme, host) == <<scheme, "://">> \o host

Paths == {"/hook"}
NotAUrl == <<"not a url">>
RelativeUrl == <<"/hook">>

HooksHost == <<"hooks.example.com">>
LookalikeHost == <<"hooks.example.com", ".evil.org">>
AttackerHost == <<"attacker.example.org">>

BlockedIps ==
    {"127.0.0.1", "10.0.0.1", "172.16.0.1", "172.31.255.255", "192.168.1.1",
     "169.254.169.254", "[::1]", "[fc00::1]", "[fdff::1]", "[fe80::1]", "[febf::1]"}

PublicIps == {"8.8.8.8", "172.32.0.1", "11.0.0.1", "[2001:db8::1]", "[fec0::1]", "[::2]"}

(* host.trim_matches(|c| c == '[' || c == ']') *)
trim_brackets(host) ==
    CASE host = "[::1]" -> "::1"
      [] host = "[::2]" -> "::2"
      [] host = "[fc00::1]" -> "fc00::1"
      [] host = "[fdff::1]" -> "fdff::1"
      [] host = "[fe80::1]" -> "fe80::1"
      [] host = "[febf::1]" -> "febf::1"
      [] host = "[fec0::1]" -> "fec0::1"
      [] host = "[2001:db8::1]" -> "2001:db8::1"
      [] OTHER -> host

V4(a, b, c, d) == Some([width |-> 8, groups |-> <<a, b, c, d>>])

V6(a, b, h) == Some([width |-> 16, groups |-> <<a, b, 0, 0, 0, 0, 0, h>>])

(* bare.parse::<IpAddr>(): the address as its groups of bits, None for a   *)
(* string that is no IP address.                                           *)
parse_IpAddr(bare) ==
    CASE bare = "127.0.0.1" -> V4(127, 0, 0, 1)
      [] bare = "10.0.0.1" -> V4(10, 0, 0, 1)
      [] bare = "11.0.0.1" -> V4(11, 0, 0, 1)
      [] bare = "172.16.0.1" -> V4(172, 16, 0, 1)
      [] bare = "172.31.255.255" -> V4(172, 31, 255, 255)
      [] bare = "172.32.0.1" -> V4(172, 32, 0, 1)
      [] bare = "192.168.1.1" -> V4(192, 168, 1, 1)
      [] bare = "169.254.169.254" -> V4(169, 254, 169, 254)
      [] bare = "8.8.8.8" -> V4(8, 8, 8, 8)
      [] bare = "::1" -> V6(0, 0, 1)
      [] bare = "::2" -> V6(0, 0, 2)
      [] bare = "fc00::1" -> V6(64512, 0, 1)
      [] bare = "fdff::1" -> V6(65023, 0, 1)
      [] bare = "fe80::1" -> V6(65152, 0, 1)
      [] bare = "febf::1" -> V6(65215, 0, 1)
      [] bare = "fec0::1" -> V6(65216, 0, 1)
      [] bare = "2001:db8::1" -> V6(8193, 3512, 1)
      [] OTHER -> None

Net(ip, len) == [width |-> Unwrap(ip).width, groups |-> Unwrap(ip).groups, len |-> len]

BLOCKED_RANGES ==
    <<Net(V4(127, 0, 0, 0), 8), Net(V4(10, 0, 0, 0), 8), Net(V4(172, 16, 0, 0), 12),
      Net(V4(192, 168, 0, 0), 16), Net(V4(169, 254, 0, 0), 16),
      Net(V6(0, 0, 1), 128), Net(V6(64512, 0, 0), 7), Net(V6(65152, 0, 0), 10)>>

(* IpNet::contains: the first net.len bits of the address are those of the *)
(* network.                                                                *)
contains(net, ip) ==
    /\ net.width = ip.width
    /\ \A i \in 1..Len(ip.groups) :
          IF i * net.width <= net.len
          THEN ip.groups[i] = net.groups[i]
          ELSE IF (i - 1) * net.width >= net.len
          THEN TRUE
          ELSE LET rest == 2 ^ (i * net.width - net.len)
               IN  ip.groups[i] \div rest = net.groups[i] \div rest

(* is_private_ip that only looks at the IPv4 ranges. *)
is_private_ip_v4_only(ip) ==
    \E i \in 1..5 : contains(BLOCKED_RANGES[i], ip)

is_private_ip(ip) ==
    \E i \in 1..Len(BLOCKED_RANGES) : contains(BLOCKED_RANGES[i], ip)

(* url.parse::<http::Uri>(): the scheme and the host of the text, None for *)
(* a text that is no URI.                                                  *)
parse_Uri(url) ==
    IF url = NotAUrl THEN None
    ELSE IF Len(url) >= 2 /\ url[2] = "://"
    THEN Some([scheme |-> Some(url[1]),
               host |-> SelectSeq(SubSeq(url, 3, Len(url)), LAMBDA x : x \notin Paths)])
    ELSE Some([scheme |-> None, host |-> <<>>])

starts_with(url, prefix) ==
    Len(prefix) <= Len(url) /\ SubSeq(url, 1, Len(prefix)) = prefix

validate_webhook_url(url, allowed) ==
    LET uri == parse_Uri(url) IN
    IF uri = None THEN "webhook_url is not a valid URL"
    ELSE IF Unwrap(uri).scheme # Some("https") THEN "webhook_url must use https://"
    ELSE LET host == Unwrap(uri).host
             ip == IF Len(host) = 1 THEN parse_IpAddr(trim_brackets(host[1])) ELSE None
         IN  IF host = <<>> THEN "webhook_url is missing a host"
             ELSE IF ip # None /\ is_private_ip(Unwrap(ip))
             THEN "webhook_url must not target private, loopback, or link-local addresses"
             ELSE IF allowed = {}
             THEN "per-secret webhook_url requires SIRR_WEBHOOK_ALLOWED_ORIGINS to be configured"
             ELSE IF ~\E o \in allowed : starts_with(url, o)
             THEN "webhook_url does not match any allowed origin in SIRR_WEBHOOK_ALLOWED_ORIGINS"
             ELSE "Ok"

----------------------------------------------------------------------------
(* store/webhooks.rs: the webhooks table.                                  *)

MAX_WEBHOOKS == 10

put_webhook(tbl, reg) == Insert(tbl, reg.id, reg)

list_webhooks(tbl) == {tbl[id] : id \in DOMAIN tbl}

delete_webhook(tbl, id) == [tbl |-> Remove(tbl, id), existed |-> id \in DOMAIN tbl]

count_webhooks(tbl) == Cardinality(DOMAIN tbl)

(* Registration.  The handler is not part of the source tree at hand; it   *)
(* is modelled from sections 3 and 4.4 of the specification: the URL is    *)
(* validated, a registration beyond MAX_WEBHOOKS is refused, otherwise the *)
(* registration is stored.  count_webhooks reads in a transaction of its   *)
(* own and put_webhook writes in another, so a registration is two steps   *)
(* of its client.                                                          *)

Pending == {Unwrap(txn[c]).reg.id : c \in {x \in Clients : txn[x] # None}}

(* generate_webhook_id(): an id that is not in use. *)
generate_webhook_id ==
    CHOOSE id \in 1..(MAX_WEBHOOKS + Cardinality(Clients) + 1) :
        /\ id \notin DOMAIN webhooks \cup Pending
        /\ \A j \in 1..(id - 1) : j \in DOMAIN webhooks \cup Pending

WebhookRegistration(id, url, events) ==
    [id |-> id, url |-> url, secret |-> "whsec", events |-> events, created_at |-> now]

webhook_check(c, url, events) ==
    /\ txn[c] = None
    /\ LET v == validate_webhook_url(url, sender.allowed_origins) IN
       IF v # "Ok"
       THEN /\ resp' = Response("register", None, 400, v, None, Some(url))
            /\ UNCHANGED txn
       ELSE IF count_webhooks(webhooks) >= MAX_WEBHOOKS
       THEN /\ resp' = Response("register", None, 409, "webhook limit reached", None,
                                Some(url))
            /\ UNCHANGED txn
       ELSE /\ txn' = [txn EXCEPT ![c] =
                        Some([reg |-> WebhookRegistration(generate_webhook_id, url, events)])]
            /\ UNCHANGED resp
    /\ UNCHANGED <<secrets, now, license, validator, audit, hist, writer, keyfile, keygen,
                   rot, webhooks, posts, sender, api_key, audit_faulty, log>>

webhook_put(c) ==
    /\ txn[c] # None
    /\ webhooks' = put_webhook(webhooks, Unwrap(txn[c]).reg)
    /\ txn' = [txn EXCEPT ![c] = None]
    /\ resp' = Response("register", None, 201, "created", None, Some(Unwrap(txn[c]).reg.url))
    /\ UNCHANGED <<secrets, now, license, validator, audit, hist, writer, keyfile, keygen,
                   rot, posts, sender, api_key, audit_faulty, log>>

webhook_delete(id) ==
    /\ LET d == delete_webhook(webhooks, id) IN
       /\ webhooks' = d.tbl
       /\ resp' = Response("unregister", None, IF d.existed THEN 200 ELSE 404,
                           IF d.existed THEN "deleted" ELSE "not found", None, Some(id))
    /\ UNCHANGED <<secrets, now, license, validator, audit, hist, writer, txn, keyfile,
                   keygen, rot, posts, sender, api_key, audit_faulty, log>>

----------------------------------------------------------------------------
(* webhooks.rs: WebhookSender.  A delivery is a task spawned with          *)
(* tokio::spawn that runs deliver; posts holds, in the order of spawning,  *)
(* the deliveries of the latest call of fire or fire_for_url: the          *)
(* registration (0 for a per-secret URL), the target, the POSTs sent so    *)
(* far and the state of the task.                                          *)

Spawned(reg, url) == [reg |-> reg, url |-> url, attempts |-> 0, outcome |-> "spawned"]

(* matches_event without the wildcard. *)
matches_event_exact(subscribed, event_type) ==
    \E e \in subscribed : e = event_type

matches_event(subscribed, event_type) ==
    \E e \in subscribed : e = "*" \/ e = event_type

(* listed: list_webhooks returns Ok. *)
fire(event_type, key, listed) ==
    /\ LET ids == SelectSeq([i \in 1..(MAX_WEBHOOKS + Cardinality(Clients) + 1) |-> i],
                            LAMBDA i : /\ i \in DOMAIN webhooks
                                       /\ webhooks[i] \in list_webhooks(webhooks)
                                       /\ matches_event(webhooks[i].events, event_type))
       IN  posts' = IF listed
                    THEN [j \in 1..Len(ids) |-> Spawned(ids[j], webhooks[ids[j]].url)]
                    ELSE <<>>
    /\ resp' = Response("fire", Some(key), 0, event_type, None, Some(listed))
    /\ UNCHANGED <<secrets, now, license, validator, audit, hist, writer, txn, keyfile,
                   keygen, rot, webhooks, sender, api_key, audit_faulty, log>>

(* fire_for_url: the re-validation at delivery time.                       *)
revalidate(url) == validate_webhook_url(url, sender.allowed_origins)

fire_for_url(url, event_type, key) ==
    /\ IF sender.per_secret_signing_key = None
       THEN /\ posts' = <<>>
            /\ resp' = Response("fire_for_url", Some(key), 0, "skipping", None, Some(url))
       ELSE LET v == revalidate(url) IN
            /\ posts' = IF v = "Ok" THEN <<Spawned(0, url)>> ELSE <<>>
            /\ resp' = Response("fire_for_url", Some(key), 0, v, None, Some(url))
    /\ UNCHANGED <<secrets, now, license, validator, audit, hist, writer, txn, keyfile,
                   keygen, rot, webhooks, sender, api_key, audit_faulty, log>>

(* deliver that sends the POST again when it failed. *)
deliver_again(i, sent) ==
    /\ i \in DOMAIN posts
    /\ posts[i].outcome = "spawned"
    /\ posts' = [posts EXCEPT ![i] =
                   [@ EXCEPT !.attempts = @ + 1,
                             !.outcome = IF sent THEN "delivered" ELSE "spawned"]]
    /\ UNCHANGED <<secrets, now, license, validator, audit, resp, hist, writer, txn,
                   keyfile, keygen, rot, webhooks, sender, api_key, audit_faulty, log>>

(* deliver: one POST with the 5 s timeout of the client; the result is     *)
(* logged and the task ends.  sent: send() returns Ok.                     *)
deliver(i, sent) ==
    /\ i \in DOMAIN posts
    /\ posts[i].outcome = "spawned"
    /\ posts' = [posts EXCEPT ![i] =
                   [@ EXCEPT !.attempts = @ + 1,
                             !.outcome = IF sent THEN "delivered" ELSE "failed"]]
    /\ UNCHANGED <<secrets, now, license, validator, audit, resp, hist, writer, txn,
                   keyfile, keygen, rot, webhooks, sender, api_key, audit_faulty, log>>

(* The daemon is started again with another SIRR_WEBHOOK_SECRET or         *)
(* SIRR_WEBHOOK_ALLOWED_ORIGINS; the database is the same.                 *)
restart(config) ==
    /\ \A c \in Clients : txn[c] = None
    /\ writer = None /\ rot = None
    /\ sender' = config
    /\ posts' = <<>>
    /\ resp' = Response("restart", None, 0, "started", None, None)
    /\ UNCHANGED <<secrets, now, license, validator, audit, hist, writer, txn,
                   keyfile, keygen, rot, webhooks, api_key, audit_faulty, log>>

----------------------------------------------------------------------------
(* handlers.rs: the audit trail.  A handler builds its event with          *)
(* AuditEvent::new(action, key, ip, success, detail) and hands it to       *)
(* record_audit, which appends it in a write transaction of its own; the   *)
(* two are the steps audit_new and audit_append of a request in flight.    *)

(* str::trim *)
trim(token) ==
    CASE token = " 1.2.3.4 " -> "1.2.3.4"
      [] token = " " -> ""
      [] OTHER -> token

(* The headers of a request: X-Forwarded-For as its comma-separated        *)
(* tokens, X-Real-IP as its text, None for a header that is not sent.      *)
HeaderMaps ==
    [xff : {None, Some(<<" 1.2.3.4 ", "10.0.0.1">>), Some(<<" ">>)},
     real_ip : {None, Some("5.6.7.8")}]

extract_ip(headers, addr) ==
    LET first == IF headers.xff # None THEN trim(Unwrap(headers.xff)[1]) ELSE ""
        real_ip == IF headers.real_ip # None THEN trim(Unwrap(headers.real_ip)) ELSE ""
    IN  IF first # "" THEN first
        ELSE IF real_ip # "" THEN real_ip
        ELSE addr

InFlight == Cardinality({c \in Clients : txn[c] # None})

audit_new(c, action, key, headers, addr) ==
    /\ txn[c] = None
    /\ Len(audit_table) + InFlight < MaxAudit
    /\ txn' = [txn EXCEPT ![c] =
                 Some([ev |-> AuditEvent(action, Some(key), TRUE, None)
                                @@ [ip |-> extract_ip(headers, addr)],
                       headers |-> headers, addr |-> addr])]
    /\ UNCHANGED <<secrets, now, license, validator, audit, resp, hist, writer, ext>>

audit_append(c) ==
    /\ txn[c] # None
    /\ \E ok \in AuditOutcomes :
          /\ StoreRecordAudit(Unwrap(txn[c]).ev, ok)
          /\ audit_table' = IF ok THEN Append(audit_table, Unwrap(txn[c]).ev)
                                   ELSE audit_table
    /\ txn' = [txn EXCEPT ![c] = None]
    /\ UNCHANGED <<secrets, now, license, validator, resp, hist, writer, keyfile, keygen,
                   rot, webhooks, posts, sender, api_key, audit_faulty, trusted_proxies,
                   redact_audit_keys>>

(* Store::list_audit: the entries with since <= timestamp <= until and the *)
(* action asked for, in insertion order, at most limit of them.            *)
list_audit(tbl, query) ==
    LET sel == SelectSeq(tbl, LAMBDA e :
                   /\ query.since = None \/ Unwrap(query.since) <= e.timestamp
                   /\ query.until = None \/ e.timestamp <= Unwrap(query.until)
                   /\ query.action = None \/ e.action = Unwrap(query.action))
    IN  SubSeq(sel, 1, IF Len(sel) < query.limit THEN Len(sel) ELSE query.limit)

AuditQueryParams ==
    [since : {None, Some(1)}, until : {None}, action : {None, Some("secret.read")},
     limit : {None, Some(1)}]

audit_events(params) ==
    /\ LET unwrapped == IF params.limit = None THEN 100 ELSE Unwrap(params.limit)
           limit == IF unwrapped < 1000 THEN unwrapped ELSE 1000
           query == [since |-> params.since, until |-> params.until,
                     action |-> params.action, limit |-> limit]
       IN  resp' = Response("audit", None, 200, "events", None,
                            Some(list_audit(audit_table, query)))
    /\ audit' = <<>>
    /\ UNCHANGED <<secrets, now, license, validator, hist, writer, txn, ext>>

(* The daemon is started again with other trusted proxies or another       *)
(* redaction flag; the database is the same.                               *)
restart_audit(proxies, flag) ==
    /\ \A c \in Clients : txn[c] = None
    /\ trusted_proxies' = proxies
    /\ redact_audit_keys' = flag
    /\ resp' = Response("restart", None, 0, "started", None, None)
    /\ UNCHANGED <<secrets, now, license, validator, audit, hist, writer, txn, keyfile,
                   keygen, rot, webhooks, posts, sender, api_key, audit_faulty,
                   audit_table>>

----------------------------------------------------------------------------

(* The requests a client can send.  A request whose key or value fails the *)
(* length checks is answered before any other field is looked at, so one   *)
(* request of each such shape is drawn.                                    *)

OptBool == {None, Some(TRUE), Some(FALSE)}
OptValue(V) == {None} \cup {Some(v) : v \in V}

CreateRequest(key, value, ttl_seconds, max_reads, delete) ==
    [key |-> key, value |-> value, ttl_seconds |-> ttl_seconds,
     max_reads |-> max_reads, delete |-> delete]

PatchRequest(value, max_reads, ttl_seconds, clear_ttl) ==
    [value |-> value, max_reads |-> max_reads, ttl_seconds |-> ttl_seconds,
     clear_ttl |-> clear_ttl]

BadCreates ==
    {CreateRequest(EmptyKey, "v1", None, None, None),
     CreateRequest(LongKey, "v1", None, None, None),
     CreateRequest("a", BigValue, None, None, None)}

BadPatches == {PatchRequest(Some(BigValue), None, None, FALSE)}

Creates(K, V, T, M, D) ==
    {CreateRequest(k, v, t, m, d) : k \in K, v \in V, t \in T, m \in M, d \in D}
        \cup BadCreates

Patches(V, M, T) ==
    {PatchRequest(v, m, t, c) : v \in OptValue(V), m \in M, t \in T, c \in {FALSE}}
        \cup {PatchRequest(v, m, None, TRUE) : v \in OptValue(V), m \in M}
        \cup BadPatches

(* OnlineValidator::is_valid is consulted only when a validator is         *)
(* configured.                                                             *)
Validities == IF validator THEN BOOLEAN ELSE {TRUE}

Init ==
    /\ secrets = << >>
    /\ now = 0
    /\ audit = <<>>
    /\ resp = Response("none", None, 0, "none", None, None)
    /\ hist = [k \in AllKeys |-> None]
    /\ writer = None
    /\ txn = [c \in Clients |-> None]

CreateReq(R) ==
    \E r \in R, valid \in Validities :
        create_secret(r.key, r.value, r.ttl_seconds, r.max_reads, r.delete, valid)

GetReq(K) == \E key \in K : get_secret(key)

HeadReq(K) == \E key \in K : head_secret(key)

PatchReq(K, R) ==
    \E key \in K, r \in R :
        patch_secret(key, r.value, r.max_reads, r.ttl_seconds, r.clear_ttl)

DeleteReq(K) == \E key \in K : delete_secret(key)

----------------------------------------------------------------------------
(* Spec: the life of the record at one key, under every request the bounds *)
(* allow.  With one key the free-tier gate of create_secret is never       *)
(* reached, so the instance is taken as licensed.                          *)

OneKey == {"a"}

(* A fresh data directory: the first key in sirr.key, no rotation under    *)
(* way.                                                                    *)
InitKey == keyfile = 1 /\ keygen = 1 /\ rot = None

InitHooks == webhooks = << >> /\ posts = <<>>

(* No per-secret webhooks, no API key, an audit table that takes every     *)
(* append.                                                                 *)
NoSender == [per_secret_signing_key |-> None, allowed_origins |-> {}]

InitPlain ==
    /\ InitKey
    /\ InitHooks
    /\ sender = NoSender
    /\ api_key = None
    /\ audit_faulty = FALSE
    /\ InitLog

InitOne ==
    /\ Init
    /\ license = "Licensed"
    /\ validator = FALSE
    /\ InitPlain

(* The create requests of Spec. *)
SpecCreates == Creates(OneKey, Values, OptNat(MaxTtl), OptNat(MaxN), OptBool)

Next ==
    \/ CreateReq(SpecCreates)
    \/ GetReq(OneKey)
    \/ HeadReq(OneKey)
    \/ PatchReq(OneKey, Patches(Values, OptNat(MaxN), OptNat(MaxTtl)))
    \/ DeleteReq(OneKey)
    \/ list_secrets
    \/ prune_secrets
    \/ sweep
    \/ Tick

Spec == InitOne /\ [][Next]_vars

----------------------------------------------------------------------------
(* SpecConc: two clients read one key concurrently; every get is the two   *)
(* steps get_begin and get_commit.                                         *)

GetBegin(K) == \E c \in Clients, key \in K : get_begin(c, key)

GetCommit == \E c \in Clients : get_commit(c)

NextConc ==
    \/ CreateReq(Creates(OneKey, {"v1"}, {None, Some(1)}, OptNat(MaxN), OptBool))
    \/ GetBegin(OneKey)
    \/ GetCommit
    \/ list_secrets
    \/ Tick

SpecConc == InitOne /\ [][NextConc]_vars

----------------------------------------------------------------------------
(* SpecPair: two keys and fewer shapes of request: one value, no TTL or a  *)
(* TTL of one second, max_reads 0 or 1, delete absent or false, no patch.  *)

PairCreates ==
    Creates(Keys, {"v1"}, {None, Some(1)}, {Some(0), Some(1)},
            {None, Some(FALSE)})

NextPair ==
    \/ CreateReq(PairCreates)
    \/ GetReq(Keys)
    \/ HeadReq(Keys)
    \/ DeleteReq(Keys)
    \/ list_secrets
    \/ prune_secrets
    \/ sweep
    \/ Tick

SpecPair == InitOne /\ [][NextPair]_vars

----------------------------------------------------------------------------
(* SpecRotate: the daemon serves two keys and is stopped for a rotation    *)
(* up to MaxRotations times.  The data directory is a fresh one, or one    *)
(* that has been rotated up to the last but one key version and holds a    *)
(* record.                                                                 *)

OldDir == KEY_VERSION_MAX - 1

OldRecord ==
    [value_encrypted |-> encrypt(OldDir, "v1"), key_version |-> OldDir,
     created_at |-> 0, expires_at |-> None, max_reads |-> None, read_count |-> 0,
     delete |-> FALSE]

InitRotate ==
    /\ now = 0
    /\ audit = <<>>
    /\ resp = Response("none", None, 0, "none", None, None)
    /\ hist = [k \in AllKeys |-> None]
    /\ writer = None
    /\ txn = [c \in Clients |-> None]
    /\ license = "Licensed"
    /\ validator = FALSE
    /\ InitHooks
    /\ sender = NoSender
    /\ api_key = None
    /\ audit_faulty = FALSE
    /\ InitLog
    /\ rot = None
    /\ \/ keyfile = 1 /\ keygen = 1 /\ secrets = << >>
       \/ keyfile = OldDir /\ keygen = OldDir
            /\ secrets = Insert(<< >>, "a", OldRecord)

RotCreates ==
    {CreateRequest(k, "v1", None, None, Some(FALSE)) : k \in Keys}
        \cup {CreateRequest(k, "v1", Some(1), Some(2), Some(FALSE)) : k \in Keys}

Serving == rot = None

RotationsLeft ==
    \/ keygen < 1 + MaxRotations
    \/ keygen >= OldDir /\ keygen < OldDir + MaxRotations

NextRotate ==
    \/ Serving /\ CreateReq(RotCreates)
    \/ Serving /\ GetReq(Keys)
    \/ Serving /\ DeleteReq(Keys)
    \/ RotationsLeft /\ cmd_rotate_store
    \/ cmd_rotate_write_key
    \/ cmd_rotate_killed

SpecRotate == InitRotate /\ [][NextRotate]_vars

----------------------------------------------------------------------------
(* SpecHooks: one client registers and deletes webhooks, events are fired  *)
(* to the registrations and to per-secret URLs, and the daemon is          *)
(* restarted with another webhook configuration.                           *)

Hosts == {HooksHost, LookalikeHost, AttackerHost}
            \cup {<<ip>> : ip \in BlockedIps \cup PublicIps}

Urls ==
    {Url("https", h, "/hook") : h \in Hosts}
        \cup {Url("http", HooksHost, "/hook"), Url("http", <<"10.0.0.1">>, "/hook"),
              NotAUrl, RelativeUrl}

HooksOrigin == Origin("https", HooksHost)

OriginSets ==
    {{}, {HooksOrigin}, {Origin("http", HooksHost)},
     {HooksOrigin} \cup {Origin("https", <<ip>>) : ip \in BlockedIps}}

SenderConfigs ==
    {[per_secret_signing_key |-> k, allowed_origins |-> a] :
        k \in {None, Some("whsec")}, a \in OriginSets}

EventTypes == {"secret.created", "secret.read"}

EventSets == {{"*"}, {"secret.created"}}

InitSender ==
    /\ Init
    /\ license = "Licensed"
    /\ validator = FALSE
    /\ InitKey
    /\ InitHooks
    /\ api_key = None
    /\ audit_faulty = FALSE
    /\ InitLog
    /\ sender \in SenderConfigs

NextHooks ==
    \/ \E url \in Urls, events \in EventSets :
            count_webhooks(webhooks) < MaxRegs /\ webhook_check("c1", url, events)
    \/ webhook_put("c1")
    \/ \E id \in 1..MaxRegs : webhook_delete(id)
    \/ \E e \in EventTypes, listed \in BOOLEAN : fire(e, "a", listed)
    \/ \E i \in 1..MaxRegs, sent \in BOOLEAN : deliver(i, sent)
    \/ \E url \in Urls, e \in EventTypes : fire_for_url(url, e, "a")
    \/ \E config \in SenderConfigs : restart(config)

SpecHooks == InitSender /\ [][NextHooks]_vars

(* SpecCap: two clients register and delete webhooks of one shape, up to   *)
(* the limit of the table and beyond.                                      *)

HooksUrl == Url("https", HooksHost, "/hook")

InitCap ==
    /\ InitSender
    /\ sender = [per_secret_signing_key |-> Some("whsec"), allowed_origins |-> {HooksOrigin}]

NextCap ==
    \/ \E c \in Clients : webhook_check(c, HooksUrl, {"*"})
    \/ \E c \in Clients : webhook_put(c)
    \/ \E id \in {1, MAX_WEBHOOKS + 1} : webhook_delete(id)

SpecCap == InitCap /\ [][NextCap]_vars

(* SpecSweep: clients create and read one key, a read holding the write    *)
(* lock from its begin to its commit, while the clock advances and the     *)
(* sweep task runs.  The interval of the sweep task ticks for as long as   *)
(* the daemon runs and its prune waits for the write lock, so a sweep that *)
(* is enabled again and again happens; a read that has begun commits.      *)

SweepCreates == Creates(OneKey, {"v1"}, OptNat(MaxTtl), {None, Some(1)}, {None})

NextSweep ==
    \/ CreateReq(SweepCreates)
    \/ GetBegin(OneKey)
    \/ GetCommit
    \/ sweep
    \/ Tick

SweepTicks == SF_vars(sweep) /\ WF_vars(GetCommit)

SpecSweep == InitOne /\ [][NextSweep]_vars /\ SweepTicks

(* SpecRace: a Free instance on which two clients create records at three  *)
(* keys, the license gate and the put of a create being two steps.         *)

RaceCreates ==
    {CreateRequest(k, "v1", t, None, Some(FALSE)) : k \in AllKeys, t \in {None, Some(1)}}
        \cup {CreateRequest(EmptyKey, "v1", None, None, None)}

InitRace ==
    /\ Init
    /\ InitPlain
    /\ license = "Free"
    /\ validator = FALSE

NextRace ==
    \/ \E c \in Clients, r \in RaceCreates : create_check(c, r, TRUE)
    \/ \E c \in Clients : create_put(c)
    \/ Tick

SpecRace == InitRace /\ [][NextRace]_vars

(* SpecFire: one client registers webhooks for different events, events    *)
(* are fired to them and to a per-secret URL, and the deliveries run.      *)

NextFire ==
    \/ \E events \in EventSets :
            count_webhooks(webhooks) < MaxSubs /\ webhook_check("c1", HooksUrl, events)
    \/ webhook_put("c1")
    \/ \E id \in 1..MaxSubs : webhook_delete(id)
    \/ \E e \in EventTypes, listed \in BOOLEAN : fire(e, "a", listed)
    \/ \E e \in EventTypes : fire_for_url(HooksUrl, e, "a")
    \/ \E i \in 1..MaxSubs, sent \in BOOLEAN : deliver(i, sent)

SpecFire == InitCap /\ [][NextFire]_vars

----------------------------------------------------------------------------
(* auth.rs and server.rs: the router and the API-key middleware.           *)

(* An Authorization header is its text in pieces; None is no header.       *)
Bearer(token) == Some(<<"Bearer ", token>>)

Headers ==
    {None, Bearer("k"), Bearer("x"), Some(<<"bearer ", "k">>), Some(<<"k">>),
     Some(<<"Bearer ", "k", " ">>), Some(<<"Bearer ">>)}

(* v.strip_prefix("Bearer ") *)
strip_prefix_Bearer(authorization) ==
    IF authorization # None /\ Unwrap(authorization)[1] = "Bearer "
    THEN Some(Tail(Unwrap(authorization)))
    ELSE None

constant_time_eq(t, expected) == t = <<expected>>

Unauthorized(route) ==
    /\ resp' = Response(route, None, 401, "unauthorized", None, None)
    /\ audit' = <<>>
    /\ UNCHANGED <<secrets, now, license, validator, ext, hist, writer, txn>>

require_api_key(authorization, route, next) ==
    IF api_key = None
    THEN next
    ELSE LET token == strip_prefix_Bearer(authorization) IN
         IF token # None /\ constant_time_eq(Unwrap(token), Unwrap(api_key))
         THEN next
         ELSE Unauthorized(route)

health ==
    /\ resp' = Response("health", None, 200, "ok", None, None)
    /\ audit' = <<>>
    /\ UNCHANGED <<secrets, now, license, validator, ext, hist, writer, txn>>

(* A request that matches no route of the router. *)
not_found(route) ==
    /\ resp' = Response(route, None, 404, "no route", None, None)
    /\ audit' = <<>>
    /\ UNCHANGED <<secrets, now, license, validator, ext, hist, writer, txn>>

AuthPatches == {PatchRequest(Some("v2"), None, None, FALSE)}

PublicRoutes == {"health", "get", "head"}

ProtectedRoutes == {"list", "create", "patch", "delete", "prune"}

(* The routes of section 6 of the specification that need the API key.     *)
AuthRequired == ProtectedRoutes \cup {"audit"}

Handler(route) ==
    CASE route = "health" -> health
      [] route = "get" -> GetReq(Keys)
      [] route = "head" -> HeadReq(Keys)
      [] route = "list" -> list_secrets
      [] route = "create" -> CreateReq(RotCreates)
      [] route = "patch" -> PatchReq(Keys, AuthPatches)
      [] route = "delete" -> DeleteReq(Keys)
      [] route = "prune" -> prune_secrets

(* run: the public router, the protected router under require_api_key, and *)
(* 404 for every other path.                                               *)
Serve(route, authorization) ==
    IF route \in PublicRoutes THEN Handler(route)
    ELSE IF route \in ProtectedRoutes
    THEN require_api_key(authorization, route, Handler(route))
    ELSE not_found(route)

InitAuth ==
    /\ Init
    /\ license = "Licensed"
    /\ validator = FALSE
    /\ InitKey
    /\ InitHooks
    /\ sender = NoSender
    /\ audit_faulty = FALSE
    /\ InitLog
    /\ api_key \in {None, Some("k")}

NextAuth ==
    \/ \E route \in PublicRoutes, h \in Headers : Serve(route, h)
    \/ \E route \in ProtectedRoutes, h \in Headers : Serve(route, h)
    \/ \E h \in Headers : Serve("audit", h)

SpecAuth == InitAuth /\ [][NextAuth]_vars

----------------------------------------------------------------------------
(* SpecFree: two keys on an instance that is Free, licensed without a      *)
(* validator, or licensed with one; the store fills up to FREE_TIER_LIMIT  *)
(* and records expire.                                                     *)

FreeCreates == RotCreates \cup BadCreates

InitFree ==
    /\ Init
    /\ InitPlain
    /\ \/ license = "Free" /\ validator = FALSE
       \/ license = "Licensed" /\ validator \in BOOLEAN

NextFree ==
    \/ CreateReq(FreeCreates)
    \/ GetReq(Keys)
    \/ DeleteReq(Keys)
    \/ Tick

SpecFree == InitFree /\ [][NextFree]_vars

----------------------------------------------------------------------------
(* SpecAudit: every handler on one key, on an audit table whose appends    *)
(* can fail.                                                               *)

HttpRequest(op, key, body) == [op |-> op, key |-> key, body |-> body]

AuditRequests ==
    {HttpRequest("create", r.key, Some(r)) : r \in {x \in FreeCreates : x.key # "b"}}
        \cup {HttpRequest(op, k, None) : op \in {"get", "head", "delete"}, k \in OneKey}
        \cup {HttpRequest("patch", k, Some(r)) : k \in OneKey, r \in AuthPatches \cup BadPatches}
        \cup {HttpRequest(op, "", None) : op \in {"list", "prune"}}

Do(q) ==
    CASE q.op = "create" -> CreateReq({Unwrap(q.body)})
      [] q.op = "get" -> GetReq({q.key})
      [] q.op = "head" -> HeadReq({q.key})
      [] q.op = "patch" -> PatchReq({q.key}, {Unwrap(q.body)})
      [] q.op = "delete" -> DeleteReq({q.key})
      [] q.op = "list" -> list_secrets
      [] q.op = "prune" -> prune_secrets

InitAudit ==
    /\ Init
    /\ license = "Licensed"
    /\ validator = FALSE
    /\ InitKey
    /\ InitHooks
    /\ sender = NoSender
    /\ api_key = None
    /\ audit_faulty = TRUE
    /\ InitLog

NextAudit ==
    \/ \E q \in AuditRequests : Do(q)
    \/ Tick

SpecAudit == InitAudit /\ [][NextAudit]_vars

----------------------------------------------------------------------------
(* SpecLife: the record at one key under every operation that reads or    *)
(* rewrites it: the handlers and the rotate command.                       *)

LifePatches ==
    {PatchRequest(None, Some(1), None, FALSE), PatchRequest(Some("v2"), None, None, FALSE)}

NextLife ==
    \/ Serving /\ CreateReq({r \in RotCreates : r.key = "a"})
    \/ Serving /\ GetReq(OneKey)
    \/ Serving /\ HeadReq(OneKey)
    \/ Serving /\ PatchReq(OneKey, LifePatches)
    \/ Serving /\ list_secrets
    \/ Serving /\ prune_secrets
    \/ RotationsLeft /\ cmd_rotate_store
    \/ cmd_rotate_write_key
    \/ cmd_rotate_killed

SpecLife == InitRotate /\ [][NextLife]_vars

----------------------------------------------------------------------------
(* SpecIp: one client sends requests with every shape of proxy headers     *)
(* from a proxy and from elsewhere, under every list of trusted proxies.   *)

Peers == {"10.0.0.1", "8.8.8.8"}

ProxyLists == {{}, {Net(V4(10, 0, 0, 0), 8)}}

NextIp ==
    \/ \E headers \in HeaderMaps, addr \in Peers :
            audit_new("c1", "secret.read", "a", headers, addr)
    \/ audit_append("c1")
    \/ \E proxies \in ProxyLists : restart_audit(proxies, FALSE)

SpecIp == InitOne /\ [][NextIp]_vars

(* SpecLog: two clients append audit entries concurrently while the clock  *)
(* runs; the audit query reads the table, with and without redaction.      *)

NoHeaders == [xff |-> None, real_ip |-> None]

NextLog ==
    \/ \E c \in Clients, action \in {"secret.read", "secret.create"} :
            audit_new(c, action, "a", NoHeaders, "8.8.8.8")
    \/ \E c \in Clients : audit_append(c)
    \/ \E params \in AuditQueryParams : audit_events(params)
    \/ \E flag \in BOOLEAN : restart_audit({}, flag)
    \/ Tick

SpecLog == InitOne /\ [][NextLog]_vars

----------------------------------------------------------------------------
(* Claims.                                                                 *)

GotOn(k) == resp.op = "get" /\ resp.key = Some(k)

(* The derived states of section 3 of the specification, for the record at *)
(* key k of table tbl at time t.                                           *)
Stored(tbl, k) == k \in DOMAIN tbl

Expired(tbl, k, t) ==
    Stored(tbl, k) /\ tbl[k].expires_at # None /\ tbl[k].expires_at[1] <= t

Exhausted(tbl, k) ==
    Stored(tbl, k) /\ tbl[k].max_reads # None
        /\ tbl[k].read_count >= tbl[k].max_reads[1]

Sealed(tbl, k) == Exhausted(tbl, k) /\ ~tbl[k].delete

Burned(tbl, k) == Exhausted(tbl, k) /\ tbl[k].delete

Active(tbl, k, t) == Stored(tbl, k) /\ ~Expired(tbl, k, t) /\ ~Exhausted(tbl, k)

(* C1: for a record put with delete = true and max_reads = N that was not  *)
(* expired, patched, deleted or overwritten meanwhile, the i-th get since  *)
(* the put returns the plaintext as Value when i < N, as Burned when i = N *)
(* (and the record is gone), and NotFound when i > N.                      *)
C1_ExactlyNThenNotFound ==
    \A k \in Keys :
        (GotOn(k) /\ Tracked(k) /\ H(k).delete /\ IsSome(H(k).max_reads)) =>
            LET N == Unwrap(H(k).max_reads)
                i == H(k).gets
            IN  /\ i < N => resp.kind = "Value" /\ resp.value = Some(H(k).value)
                /\ i = N => /\ resp.kind = "Burned"
                            /\ resp.value = Some(H(k).value)
                            /\ k \notin DOMAIN secrets
                /\ i > N => resp.kind = "NotFound" /\ resp.value = None

(* The same for the read limits the data model of the specification        *)
(* admits, N >= 1.                                                         *)
C1_PositiveN ==
    \A k \in Keys :
        (GotOn(k) /\ Tracked(k) /\ H(k).delete /\ IsSome(H(k).max_reads)
            /\ Unwrap(H(k).max_reads) >= 1) =>
            LET N == Unwrap(H(k).max_reads)
                i == H(k).gets
            IN  /\ i < N => resp.kind = "Value" /\ resp.value = Some(H(k).value)
                /\ i = N => /\ resp.kind = "Burned"
                            /\ resp.value = Some(H(k).value)
                            /\ k \notin DOMAIN secrets
                /\ i > N => resp.kind = "NotFound" /\ resp.value = None

(* C2: for a record put with delete = false and max_reads = N that was not *)
(* expired, patched, deleted or overwritten meanwhile, the i-th get since  *)
(* the put returns the plaintext as Value when i <= N and Sealed (410)     *)
(* when i > N; the record stays in the store, read N times, and a list     *)
(* answered while it is there returns it.                                  *)
C2_ExactlyNThenSealed ==
    \A k \in Keys :
        (Tracked(k) /\ ~H(k).delete /\ IsSome(H(k).max_reads)) =>
            LET N == Unwrap(H(k).max_reads)
                i == H(k).gets
            IN  /\ k \in DOMAIN secrets
                /\ GotOn(k) /\ i <= N =>
                        /\ resp.kind = "Value"
                        /\ resp.value = Some(H(k).value)
                /\ GotOn(k) /\ i > N =>
                        /\ resp.kind = "Sealed"
                        /\ resp.status = 410
                        /\ resp.value = None
                        /\ secrets[k].read_count = N
                /\ resp.op = "list" /\ ~Expired(secrets, k, now) =>
                        \E m \in resp.body : m.key = k /\ m.read_count = H(k).plain

C2_Witness ==
    /\ GotOn("a") /\ Tracked("a") /\ ~H("a").delete
    /\ H("a").max_reads = Some(2) /\ H("a").gets = 3
    /\ resp.kind = "Sealed"

Min(x, y) == IF x <= y THEN x ELSE y

(* C3: under any interleaving of the gets of concurrent clients on one key *)
(* whose record has max_reads = N, exactly N of the gets in total return   *)
(* the plaintext: of the g gets answered so far, min(g, N) did.            *)
C3_ExactlyNInTotal ==
    \A k \in Keys :
        (Tracked(k) /\ IsSome(H(k).max_reads)) =>
            H(k).plain = Min(H(k).gets, Unwrap(H(k).max_reads))

(* The same for the read limits the data model of the specification        *)
(* admits, N >= 1.                                                         *)
C3_PositiveN ==
    \A k \in Keys :
        (Tracked(k) /\ IsSome(H(k).max_reads) /\ Unwrap(H(k).max_reads) >= 1) =>
            H(k).plain = Min(H(k).gets, Unwrap(H(k).max_reads))

(* C4: for a record created with max_reads = N, for every N the create     *)
(* request accepts, and never patched, at most N gets return its           *)
(* plaintext.                                                              *)
C4_AtMostNReads ==
    \A k \in Keys :
        (Tracked(k) /\ IsSome(H(k).max_reads)) =>
            H(k).plain <= Unwrap(H(k).max_reads)

AllPatches == Patches(Values, OptNat(MaxN), OptNat(MaxTtl))

PatchOn(k) ==
    /\ resp'.op = "patch"
    /\ \E r \in AllPatches :
        patch_secret(k, r.value, r.max_reads, r.ttl_seconds, r.clear_ttl)

CreateOn(k) == resp'.op = "create" /\ resp'.key = Some(k) /\ resp'.status = 201

(* C5: once the record at a key is sealed, every step other than a put or  *)
(* a delete on that key leaves it sealed, or removes it because it has     *)
(* expired.  Stated for the records that were sealed by their reads        *)
(* (read_count >= 1).                                                      *)
C5_SealedStaysSealed ==
    [][\A k \in Keys :
          (/\ Sealed(secrets, k) /\ secrets[k].read_count >= 1
           /\ ~CreateOn(k) /\ ~delete_secret(k)) =>
              \/ Sealed(secrets', k)
              \/ ~Stored(secrets', k) /\ Expired(secrets, k, now)]_vars

(* C6: a record whose expires_at is set and <= now is not observable: a    *)
(* get answers NotFound (404) and removes it, a head answers 404, a patch  *)
(* answers as for an absent key (404, or 400 for an oversized value, which *)
(* is refused before the store is asked), and a list omits it.             *)
C6_ExpiredNotObservable ==
    [][\A k \in Keys :
          Expired(secrets, k, now) =>
              /\ get_secret(k) =>
                    /\ resp'.kind = "NotFound" /\ resp'.status = 404
                    /\ resp'.value = None
                    /\ ~Stored(secrets', k)
              /\ head_secret(k) => resp'.status = 404 /\ resp'.body = None
              /\ PatchOn(k) =>
                    /\ resp'.status \in {400, 404}
                    /\ resp'.status = 400 => resp'.kind = "value exceeds 1 MiB limit"
                    /\ resp'.body = None
              /\ list_secrets => \A m \in resp'.body : m.key # k]_vars

(* A list answered at the present time while the record at "a" is both     *)
(* expired and sealed by a read.                                           *)
C6_Witness ==
    /\ resp.op = "list" /\ audit[1].timestamp = now /\ resp.body = {}
    /\ Expired(secrets, "a", now)
    /\ Sealed(secrets, "a") /\ secrets["a"].read_count = 1

Oversized(r) == r.value # None /\ StrLen(r.value[1]) > MAX_VALUE_LEN

(* C8: a patch on an existing, unexpired record with delete = true is      *)
(* answered 409 and leaves the record unchanged, whatever the patch        *)
(* carries.                                                                *)
C8_PatchOfBurnOnReadIs409 ==
    [][resp'.op = "patch" =>
          \A k \in Keys :
              (Stored(secrets, k) /\ ~Expired(secrets, k, now) /\ secrets[k].delete) =>
                  \A r \in AllPatches :
                      patch_secret(k, r.value, r.max_reads, r.ttl_seconds, r.clear_ttl)
                          => resp'.status = 409 /\ secrets' = secrets]_vars

(* C8 as amended: such a patch is answered 409, or 400 when its value is   *)
(* larger than 1 MiB, and leaves the record unchanged; a record created    *)
(* without a delete field is such a record.                                *)
C8_PatchOfBurnOnReadIs409Or400 ==
    [][/\ resp'.op = "patch" =>
            \A k \in Keys :
                (Stored(secrets, k) /\ ~Expired(secrets, k, now) /\ secrets[k].delete) =>
                    \A r \in AllPatches :
                        patch_secret(k, r.value, r.max_reads, r.ttl_seconds, r.clear_ttl)
                            => /\ resp'.status = IF Oversized(r) THEN 400 ELSE 409
                               /\ secrets' = secrets
       /\ (resp'.op = "create" /\ resp'.status = 201) =>
            \A k \in Keys, v \in Values :
                create_secret(k, v, None, None, None, TRUE) => secrets'[k].delete]_vars

C8_Witness ==
    /\ resp.op = "patch" /\ resp.key = Some("a") /\ resp.status = 409
    /\ Stored(secrets, "a") /\ secrets["a"].delete /\ secrets["a"].read_count = 1

DeleteGiven(r) == IF r.delete = None THEN TRUE ELSE r.delete[1]

FreshFields(tbl, r, t) ==
    /\ Stored(tbl, r.key)
    /\ tbl[r.key].read_count = 0
    /\ tbl[r.key].created_at = t
    /\ tbl[r.key].max_reads = r.max_reads
    /\ tbl[r.key].delete = DeleteGiven(r)
    /\ tbl[r.key].expires_at =
            IF r.ttl_seconds = None THEN None ELSE Some(t + r.ttl_seconds[1])
    /\ decrypt(EncKey, tbl[r.key].value_encrypted) = Some(r.value)

Framed(tbl, tbl2, key) ==
    /\ DOMAIN tbl2 \ {key} = DOMAIN tbl \ {key}
    /\ \A j \in DOMAIN tbl \ {key} : tbl2[j] = tbl[j]

(* C9: a successful put leaves at its key a fresh Active record whatever   *)
(* was there before: read_count = 0, created_at = now, max_reads, delete   *)
(* and TTL as given; the records at the other keys are unchanged.          *)
C9_PutLeavesFreshActive ==
    [][(resp'.op = "create" /\ resp'.status = 201) =>
          \A r \in {q \in PairCreates : Some(q.key) = resp'.key}, valid \in BOOLEAN :
              create_secret(r.key, r.value, r.ttl_seconds, r.max_reads, r.delete, valid)
                  => /\ FreshFields(secrets', r, now)
                     /\ Active(secrets', r.key, now)
                     /\ Framed(secrets, secrets', r.key)]_vars

(* The part of C9 that does not depend on the record being Active.         *)
C9_FreshAndFramed ==
    [][(resp'.op = "create" /\ resp'.status = 201) =>
          \A r \in {q \in PairCreates : Some(q.key) = resp'.key}, valid \in BOOLEAN :
              create_secret(r.key, r.value, r.ttl_seconds, r.max_reads, r.delete, valid)
                  => /\ FreshFields(secrets', r, now)
                     /\ Framed(secrets, secrets', r.key)]_vars

(* C10: prune removes exactly the records that are expired or burned when  *)
(* it runs, answers with their number, and leaves every other record, the  *)
(* sealed ones among them, unchanged.                                      *)
C10_PruneRemovesExpiredOrBurned ==
    [][(resp'.op = "prune" /\ prune_secrets) =>
          LET gone == {k \in DOMAIN secrets :
                          Expired(secrets, k, now) \/ Burned(secrets, k)}
          IN  /\ DOMAIN secrets' = DOMAIN secrets \ gone
              /\ \A k \in DOMAIN secrets' : secrets'[k] = secrets[k]
              /\ resp'.body = Cardinality(gone)
              /\ \A k \in Keys :
                    Sealed(secrets, k) /\ ~Expired(secrets, k, now) =>
                        Sealed(secrets', k)]_vars

C10_Witness ==
    /\ resp.op = "prune" /\ resp.body = 1
    /\ ~Stored(secrets, "a")
    /\ Sealed(secrets, "b") /\ secrets["b"].read_count = 1

----------------------------------------------------------------------------
(* Rotation.                                                               *)

Decrypts(tbl, k, key) == decrypt(key, tbl[k].value_encrypted) # None

(* C11: rotate is all-or-nothing: when it has returned, either it          *)
(* succeeded and every record of the table is encrypted under the new key  *)
(* and carries the new version, or it failed and no record is modified.    *)
C11_RotateAllOrNothing ==
    [][cmd_rotate_store =>
          \/ /\ rot' # None
             /\ DOMAIN secrets' = DOMAIN secrets
             /\ \A k \in DOMAIN secrets' :
                    /\ secrets'[k].value_encrypted.under = rot'[1].key
                    /\ secrets'[k].key_version = rot'[1].version
          \/ /\ rot' = None
             /\ resp'.status = 1
             /\ secrets' = secrets]_vars

(* A rotation that failed on a table of which the loaded key decrypts one  *)
(* record and not the other.                                               *)
C11_Witness ==
    /\ resp.op = "rotate" /\ resp.kind = "rotate failed"
    /\ DOMAIN secrets = Keys
    /\ Decrypts(secrets, "b", keyfile) /\ ~Decrypts(secrets, "a", keyfile)

(* C12: a successful rotate preserves the plaintext of every record (the   *)
(* new key decrypts to what the old key decrypted to) and its created_at,  *)
(* expires_at, max_reads, read_count and delete, adds and removes no       *)
(* record and leaves the audit and the webhooks tables as they were; the   *)
(* write of sirr.key that follows changes no table.                        *)
C12_RotatePreserves ==
    [][/\ (cmd_rotate_store /\ rot' # None) =>
            /\ DOMAIN secrets' = DOMAIN secrets
            /\ \A k \in DOMAIN secrets :
                  /\ decrypt(keyfile, secrets[k].value_encrypted) # None
                  /\ decrypt(rot'[1].key, secrets'[k].value_encrypted)
                        = decrypt(keyfile, secrets[k].value_encrypted)
                  /\ secrets'[k].created_at = secrets[k].created_at
                  /\ secrets'[k].expires_at = secrets[k].expires_at
                  /\ secrets'[k].max_reads = secrets[k].max_reads
                  /\ secrets'[k].read_count = secrets[k].read_count
                  /\ secrets'[k].delete = secrets[k].delete
            /\ audit' = audit
            /\ webhooks' = webhooks
       /\ cmd_rotate_write_key =>
            /\ secrets' = secrets /\ audit' = audit /\ webhooks' = webhooks
            /\ \A k \in DOMAIN secrets : Decrypts(secrets, k, keyfile')]_vars

(* A rotation that succeeded on two records, one of them read once and     *)
(* carrying a TTL and a read limit.                                        *)
C12_Witness ==
    /\ resp.op = "rotate" /\ resp.kind = "rotated" /\ resp.body[1].count = 2
    /\ DOMAIN secrets = Keys
    /\ secrets["a"].read_count = 1 /\ secrets["a"].max_reads = Some(2)
    /\ secrets["a"].expires_at = Some(1)
    /\ secrets["b"].read_count = 0
    /\ \A k \in Keys : Decrypts(secrets, k, keyfile) /\ secrets[k].key_version = 2

Overflows == max_key_version(secrets) = KEY_VERSION_MAX

(* C13: each successful run of the rotate command increases                *)
(* max_key_version by exactly 1, and every record carries the new version; *)
(* when the increment overflows, the command fails with no record          *)
(* re-encrypted and sirr.key untouched.                                    *)
C13_VersionPlusOne ==
    [][/\ (cmd_rotate_store /\ rot' # None) =>
            /\ max_key_version(secrets') = max_key_version(secrets) + 1
            /\ rot'[1].version = max_key_version(secrets) + 1
            /\ \A k \in DOMAIN secrets' : secrets'[k].key_version = rot'[1].version
       /\ (cmd_rotate_store /\ Overflows) =>
            /\ resp'.status = 1
            /\ rot' = None /\ secrets' = secrets /\ keyfile' = keyfile]_vars

(* C13 as amended: the same for a store that holds at least one record; on *)
(* an empty store a successful run re-encrypts nothing, reports version 1  *)
(* and leaves max_key_version at 0.                                        *)
C13_VersionPlusOneUnlessEmpty ==
    [][/\ (cmd_rotate_store /\ rot' # None) =>
            /\ rot'[1].version = max_key_version(secrets) + 1
            /\ \A k \in DOMAIN secrets' : secrets'[k].key_version = rot'[1].version
            /\ max_key_version(secrets') =
                    IF DOMAIN secrets = {} THEN 0 ELSE max_key_version(secrets) + 1
            /\ max_key_version(secrets) < KEY_VERSION_MAX
       /\ cmd_rotate_write_key => max_key_version(secrets') = max_key_version(secrets)
       /\ (cmd_rotate_store /\ Overflows) =>
            /\ resp'.status = 1
            /\ cmd_rotate("ok") => resp'.kind = "key version overflow (max 255 rotations)"
            /\ rot' = None /\ secrets' = secrets /\ keyfile' = keyfile]_vars

(* The rotate command refused at the last key version. *)
C13_Witness ==
    /\ resp.op = "rotate" /\ resp.kind = "key version overflow (max 255 rotations)"
    /\ Overflows
    /\ DOMAIN secrets = Keys
    /\ \A k \in Keys : Decrypts(secrets, k, keyfile)

----------------------------------------------------------------------------
(* Webhooks.                                                               *)

HasHttps(url) == Len(url) >= 3 /\ url[1] = "https" /\ url[2] = "://"

TargetsBlockedIp(url) == \E ip \in BlockedIps : starts_with(url, Origin("https", <<ip>>) \o <<"/hook">>)

Acceptable(url, allowed) ==
    /\ HasHttps(url)
    /\ ~TargetsBlockedIp(url)
    /\ allowed # {}
    /\ \E o \in allowed : starts_with(url, o)

Validated == resp.op = "fire_for_url" /\ resp.kind # "skipping"

(* C14: validate_webhook_url returns Ok exactly for the URLs that have the *)
(* scheme https, whose host is no literal IP of a blocked range, and that  *)
(* start with an entry of a non-empty allowed_origins; a blocked IP is     *)
(* rejected also when it is listed in allowed_origins.                     *)
C14_OkOnlyForSafeUrls ==
    /\ Validated =>
            (resp.kind = "Ok" <=> Acceptable(Unwrap(resp.body), sender.allowed_origins))
    /\ (resp.op = "register" /\ resp.status = 400) =>
            ~Acceptable(Unwrap(resp.body), sender.allowed_origins)
    /\ \A id \in DOMAIN webhooks : HasHttps(webhooks[id].url) /\ ~TargetsBlockedIp(webhooks[id].url)

(* A URL of a blocked IPv6 range is rejected although it is listed in      *)
(* allowed_origins.                                                        *)
C14_Witness ==
    /\ Validated
    /\ Unwrap(resp.body) = Url("https", <<"[fdff::1]">>, "/hook")
    /\ Origin("https", <<"[fdff::1]">>) \in sender.allowed_origins
    /\ resp.kind = "webhook_url must not target private, loopback, or link-local addresses"

(* C15: no POST is started, by fire or by fire_for_url, towards a URL that *)
(* validate_webhook_url rejects at the time of the delivery.               *)
C15_NoPostToRejectedUrl ==
    [][\A i \in DOMAIN posts' :
          validate_webhook_url(posts'[i].url, sender'.allowed_origins) = "Ok"]_vars

(* The part of C15 that is about fire_for_url.                             *)
C15_PerSecretRevalidated ==
    [][\A url \in Urls, e \in EventTypes :
          fire_for_url(url, e, "a") =>
              \A i \in DOMAIN posts' :
                  validate_webhook_url(posts'[i].url, sender.allowed_origins) = "Ok"]_vars

(* C16: the webhooks table never holds more than MAX_WEBHOOKS              *)
(* registrations.                                                          *)
C16_AtMostMaxWebhooks == count_webhooks(webhooks) <= MAX_WEBHOOKS

(* The part of C16 that is about one registration at a time: a             *)
(* registration attempted while MAX_WEBHOOKS are stored and none is under  *)
(* way is refused and leaves the table unchanged.                          *)
C16_RefusedAtMax ==
    [][\A c \in Clients :
          (/\ webhook_check(c, HooksUrl, {"*"})
           /\ count_webhooks(webhooks) >= MAX_WEBHOOKS) =>
              /\ resp'.status = 409
              /\ webhooks' = webhooks /\ txn' = txn]_vars

----------------------------------------------------------------------------
(* The license gate.                                                       *)

Unexpired == {k \in DOMAIN secrets : ~Expired(secrets, k, now)}

AtLimit == Cardinality(Unexpired) >= FREE_TIER_LIMIT

WellFormed(r) ==
    /\ StrLen(r.key) >= 1 /\ StrLen(r.key) <= MAX_KEY_LEN
    /\ StrLen(r.value) <= MAX_VALUE_LEN

Create(r, valid) ==
    create_secret(r.key, r.value, r.ttl_seconds, r.max_reads, r.delete, valid)

Rejected402(r) ==
    /\ resp'.status = 402
    /\ secrets' = secrets
    /\ Len(audit') = 1
    /\ audit'[1].action = "secret.create"
    /\ audit'[1].key = Some(r.key)
    /\ audit'[1].success = FALSE

(* C17: a create request on a Free instance that holds at least            *)
(* FREE_TIER_LIMIT unexpired records is answered 402, writes and changes   *)
(* no record and appends a secret.create audit entry with success = false; *)
(* below the limit no create request is answered 402.                      *)
C17_FreeAtLimitIs402 ==
    [][\A r \in FreeCreates, valid \in BOOLEAN :
          Create(r, valid) =>
              /\ (license = "Free" /\ AtLimit) => Rejected402(r)
              /\ ~AtLimit => resp'.status # 402]_vars

(* C17 for the requests that pass the validation of key and value, which   *)
(* create_secret runs before the gate; the others are answered 400.        *)
C17_WellFormedAtLimitIs402 ==
    [][\A r \in FreeCreates, valid \in BOOLEAN :
          Create(r, valid) =>
              /\ (license = "Free" /\ AtLimit /\ WellFormed(r)) => Rejected402(r)
              /\ (license = "Free" /\ AtLimit /\ ~WellFormed(r)) =>
                      resp'.status = 400 /\ secrets' = secrets
              /\ ~AtLimit => resp'.status # 402]_vars

(* A Free instance at the limit has just refused a create.                 *)
C17_Witness ==
    /\ license = "Free"
    /\ AtLimit
    /\ resp.op = "create" /\ resp.status = 402
    /\ Len(audit) = 1 /\ ~audit[1].success

----------------------------------------------------------------------------
(* The API key.                                                            *)

Exact(h) == api_key # None /\ h = Some(<<"Bearer ", Unwrap(api_key)>>)

Refused401 == resp'.status = 401 /\ secrets' = secrets /\ audit' = <<>>

(* C18: with an API key configured, a request to list, create, patch,      *)
(* delete, prune or audit without exactly "Bearer <key>" is answered 401   *)
(* and leaves the store and the audit log unchanged; with no API key no    *)
(* request is answered 401; get, head and health never are.                *)
C18_ProtectedRoutesNeedTheKey ==
    [][\A h \in Headers :
          /\ \A route \in AuthRequired :
                 Serve(route, h) =>
                     IF api_key # None /\ ~Exact(h)
                     THEN Refused401
                     ELSE resp'.status # 401
          /\ \A route \in PublicRoutes : Serve(route, h) => resp'.status # 401]_vars

(* The part of C18 that is about the routes of the protected router.       *)
C18_RoutedNeedTheKey ==
    [][\A h \in Headers :
          /\ \A route \in ProtectedRoutes :
                 Serve(route, h) =>
                     IF api_key # None /\ ~Exact(h)
                     THEN Refused401
                     ELSE resp'.status # 401
          /\ \A route \in PublicRoutes : Serve(route, h) => resp'.status # 401]_vars

----------------------------------------------------------------------------
(* The audit log and the data path.                                        *)

Audits(q) == ENABLED (Do(q) /\ audit' # <<>>)

(* C19: for every handler the store after the request and the response    *)
(* are the same whether the audit append succeeds or fails: a request has  *)
(* one outcome on the store and one response, the outcome with a failed    *)
(* append is always there, and so is the one with the entry appended when  *)
(* the handler audits at all.                                              *)
C19_AuditFailureIsInvisible ==
    [][\A q \in AuditRequests :
          Do(q) =>
              \E s2 \in {secrets'}, r2 \in {resp'} :
                  /\ ENABLED (Do(q) /\ secrets' = s2 /\ resp' = r2 /\ audit' = <<>>)
                  /\ Audits(q) =>
                         ENABLED (Do(q) /\ secrets' = s2 /\ resp' = r2 /\ audit' # <<>>)
                  /\ ~ENABLED (Do(q) /\ (secrets' # s2 \/ resp' # r2))]_vars

(* A create was answered 201 and stored its record while the audit append  *)
(* failed.                                                                 *)
C19_Witness ==
    /\ audit_faulty
    /\ resp.op = "create" /\ resp.status = 201
    /\ resp.key = Some("a") /\ "a" \in DOMAIN secrets
    /\ audit = <<>>

----------------------------------------------------------------------------
(* Validation errors.                                                      *)

Patch(key, r) == patch_secret(key, r.value, r.max_reads, r.ttl_seconds, r.clear_ttl)

FailureAudited == Len(audit') = 1 /\ ~audit'[1].success

(* C20: a create with an empty key, a key longer than 256 bytes or a value *)
(* larger than 1 MiB, and a patch with a value larger than 1 MiB, is       *)
(* answered 400, writes nothing to the secrets table and appends one audit *)
(* entry with success = false.                                             *)
C20_InvalidIs400AndAudited ==
    [][/\ \A r \in BadCreates :
             Create(r, TRUE) =>
                 resp'.status = 400 /\ secrets' = secrets /\ FailureAudited
       /\ \A key \in OneKey, r \in BadPatches :
             Patch(key, r) =>
                 resp'.status = 400 /\ secrets' = secrets /\ FailureAudited]_vars

(* The part of C20 that is about the answer and the secrets table.         *)
C20_InvalidIs400 ==
    [][/\ \A r \in BadCreates :
             Create(r, TRUE) => resp'.status = 400 /\ secrets' = secrets
       /\ \A key \in OneKey, r \in BadPatches :
             Patch(key, r) => resp'.status = 400 /\ secrets' = secrets]_vars

----------------------------------------------------------------------------
(* The audit trail.                                                        *)

Trusted(addr) == \E net \in trusted_proxies : contains(net, Unwrap(parse_IpAddr(addr)))

(* C21: the ip of an audit event is taken from X-Forwarded-For (first      *)
(* token) or else X-Real-IP only when the peer is inside one of the        *)
(* trusted_proxies; for every other peer, and always when trusted_proxies  *)
(* is empty, it is the peer address.                                       *)
C21_HeadersOnlyFromTrustedProxies ==
    \A c \in Clients :
        txn[c] # None =>
            LET q == Unwrap(txn[c]) IN
            q.ev.ip = IF Trusted(q.addr) THEN extract_ip(q.headers, q.addr) ELSE q.addr

(* The part of C21 that is about a peer inside trusted_proxies.            *)
C21_HeadersFromTrustedProxies ==
    \A c \in Clients :
        (txn[c] # None /\ Trusted(Unwrap(txn[c]).addr)) =>
            LET q == Unwrap(txn[c]) IN
            q.ev.ip = IF q.headers.xff = Some(<<" 1.2.3.4 ", "10.0.0.1">>) THEN "1.2.3.4"
                      ELSE IF q.headers.real_ip # None THEN "5.6.7.8"
                      ELSE q.addr

(* 'sha256:' and the first 8 hex characters of SHA-256(key). *)
Redacted(key) ==
    CASE key = "a" -> "sha256:ca978112"
      [] key = "b" -> "sha256:3e23e816"

Queried == resp.op = "audit" /\ resp.status = 200

(* C22: when redact_audit_keys is true, every key in the events the audit  *)
(* query returns is the redacted form, never the raw key, also for events  *)
(* appended while the flag was false; the stored entries keep the raw key. *)
C22_QueryRedactsKeys ==
    /\ (Queried /\ redact_audit_keys) =>
            \A i \in DOMAIN Unwrap(resp.body) :
                Unwrap(resp.body)[i].key \in {Some(Redacted(k)) : k \in Keys}
    /\ \A i \in DOMAIN audit_table : audit_table[i].key \in {Some(k) : k \in Keys}

(* The part of C22 that is about the stored entries.                       *)
C22_StoredKeysAreRaw ==
    \A i \in DOMAIN audit_table : audit_table[i].key \in {Some(k) : k \in Keys}

AppendOnly ==
    /\ Len(audit_table') >= Len(audit_table)
    /\ SubSeq(audit_table', 1, Len(audit_table)) = audit_table

(* C30: no operation modifies or removes an audit entry, appends get       *)
(* strictly increasing sequence numbers, and the entries enumerated by     *)
(* sequence have non-decreasing timestamps under any interleaving.         *)
C30_AppendOnlyAndTimeOrdered ==
    [][/\ AppendOnly
       /\ \A i, j \in DOMAIN audit_table' :
             i < j => audit_table'[i].timestamp <= audit_table'[j].timestamp]_vars

(* The part of C30 that is about the entries and their sequence numbers.   *)
C30_AppendOnly ==
    [][/\ AppendOnly
       /\ \A c \in Clients :
             (audit_append(c) /\ audit' # <<>>) =>
                 /\ Len(audit_table') = Len(audit_table) + 1
                 /\ audit_table'[Len(audit_table')] = Unwrap(txn[c]).ev]_vars

----------------------------------------------------------------------------
(* Patches and reads of a sealing record.                                  *)

(* C23: a successful patch that sets max_reads leaves read_count,          *)
(* created_at and delete unchanged; when the new cap is <= read_count the  *)
(* record is sealed right after the patch, the next get answers Sealed,    *)
(* and the record is not burned.                                           *)
C23_PatchOfCapKeepsCountAndSeals ==
    [][\A key \in OneKey, r \in AllPatches :
          (Patch(key, r) /\ resp'.status = 200 /\ r.max_reads # None) =>
              /\ key \in DOMAIN secrets'
              /\ secrets'[key].read_count = secrets[key].read_count
              /\ secrets'[key].created_at = secrets[key].created_at
              /\ secrets'[key].delete = secrets[key].delete
              /\ Unwrap(r.max_reads) <= secrets[key].read_count =>
                     /\ Sealed(secrets', key)
                     /\ ~Burned(secrets', key)
                     /\ StoreGet(secrets', key, now').kind = "Sealed"]_vars

(* C23 without the answer of the next get.                                 *)
C23_PatchOfCapKeepsCount ==
    [][\A key \in OneKey, r \in AllPatches :
          (Patch(key, r) /\ resp'.status = 200 /\ r.max_reads # None) =>
              /\ key \in DOMAIN secrets'
              /\ secrets'[key].read_count = secrets[key].read_count
              /\ secrets'[key].created_at = secrets[key].created_at
              /\ secrets'[key].delete = secrets[key].delete
              /\ Unwrap(r.max_reads) <= secrets[key].read_count =>
                     /\ Sealed(secrets', key)
                     /\ ~Burned(secrets', key)
                     /\ (~Expired(secrets', key, now')) =>
                            StoreGet(secrets', key, now').kind = "Sealed"]_vars

PlainGet(k) == get_secret(k) /\ resp'.value # None

(* C24: read_count of a stored record changes only through a get that      *)
(* returns plaintext, which adds exactly 1; head, list, patch, prune,      *)
(* rotate and a get answered Sealed leave it unchanged, and it never       *)
(* decreases over the life of a record.                                    *)
C24_ReadCountCountsPlainGets ==
    [][\A k \in Keys :
          (k \in DOMAIN secrets /\ k \in DOMAIN secrets') =>
              \/ secrets'[k].read_count =
                     secrets[k].read_count + (IF PlainGet(k) THEN 1 ELSE 0)
              \/ CreateOn(k) /\ secrets'[k].read_count = 0]_vars

(* A record that has been read once is looked at with head.                *)
C24_Witness ==
    /\ resp.op = "head" /\ resp.key = Some("a")
    /\ "a" \in DOMAIN secrets /\ secrets["a"].read_count = 1

----------------------------------------------------------------------------
(* The order of the rules of the SSRF guard.                               *)

(* The error of the first rule that fails, in the order of section 4.4 of  *)
(* the specification: the URL parses and has a host, the scheme is https,  *)
(* the host is no blocked IP, the allowlist is not empty, a prefix matches.*)
FirstFailing(url, allowed) ==
    IF url = NotAUrl THEN "webhook_url is not a valid URL"
    ELSE IF url = RelativeUrl THEN "webhook_url is missing a host"
    ELSE IF url[1] # "https" THEN "webhook_url must use https://"
    ELSE IF \E ip \in BlockedIps : url[3] = ip
    THEN "webhook_url must not target private, loopback, or link-local addresses"
    ELSE IF allowed = {}
    THEN "per-secret webhook_url requires SIRR_WEBHOOK_ALLOWED_ORIGINS to be configured"
    ELSE IF \A o \in allowed : ~starts_with(url, o)
    THEN "webhook_url does not match any allowed origin in SIRR_WEBHOOK_ALLOWED_ORIGINS"
    ELSE "Ok"

(* C25: for a URL that fails several rules the error of validate_webhook_url *)
(* is that of the first failing rule in the order: missing host, scheme    *)
(* not https, blocked literal IP, empty allowlist, no matching prefix.     *)
C25_ErrorOfFirstFailingRule ==
    Validated => resp.kind = FirstFailing(Unwrap(resp.body), sender.allowed_origins)

(* C25 for the URLs that have a host.                                      *)
C25_ErrorOfFirstFailingRuleWithHost ==
    (Validated /\ Unwrap(resp.body) # RelativeUrl) =>
        resp.kind = FirstFailing(Unwrap(resp.body), sender.allowed_origins)

----------------------------------------------------------------------------
(* Deliveries.                                                             *)

Subscribed(reg, event_type) == event_type \in reg.events \/ "*" \in reg.events

DeliveriesFor(id) == Cardinality({i \in DOMAIN posts' : posts'[i].reg = id})

(* C26: fire starts exactly one delivery for each stored registration      *)
(* whose events contain event_type or "*", none for any other, and none at *)
(* all when listing the registrations fails; it returns normally.          *)
C26_OneDeliveryPerSubscriber ==
    [][\A e \in EventTypes, listed \in BOOLEAN :
          fire(e, "a", listed) =>
              /\ \A id \in DOMAIN webhooks :
                     /\ DeliveriesFor(id) =
                            IF listed /\ Subscribed(webhooks[id], e) THEN 1 ELSE 0
                     /\ \A i \in DOMAIN posts' :
                            posts'[i].reg = id => posts'[i].url = webhooks[id].url
              /\ \A i \in DOMAIN posts' : posts'[i].reg \in DOMAIN webhooks
              /\ resp'.op = "fire"]_vars

(* secret.read was fired to a wildcard registration and to one for         *)
(* secret.created: one delivery, to the first.                             *)
C26_Witness ==
    /\ resp.op = "fire" /\ resp.kind = "secret.read" /\ resp.body = Some(TRUE)
    /\ Len(posts) = 1
    /\ \E id, other \in DOMAIN webhooks :
          /\ posts[1].reg = id
          /\ webhooks[id].events = {"*"}
          /\ webhooks[other].events = {"secret.created"}

Fires ==
    \/ \E e \in EventTypes, listed \in BOOLEAN : fire(e, "a", listed)
    \/ \E url \in Urls, e \in EventTypes : fire_for_url(url, e, "a")

Sends == \E i \in DOMAIN posts, sent \in BOOLEAN : deliver(i, sent)

(* C27: fire and fire_for_url return with every delivery they spawned      *)
(* still to run, a delivery gets at most one POST attempt, and a delivery  *)
(* that ends, failed or not, changes neither the tables nor any response.  *)
C27_DeliveriesNeverTouchTheDataPath ==
    [][/\ \A i \in DOMAIN posts' : posts'[i].attempts <= 1
       /\ Fires =>
             \A i \in DOMAIN posts' : posts'[i] = Spawned(posts'[i].reg, posts'[i].url)
       /\ Sends =>
             /\ <<secrets', webhooks', audit', audit_table', resp'>>
                    = <<secrets, webhooks, audit, audit_table, resp>>
             /\ \A i \in DOMAIN posts : posts[i].outcome # "spawned" => posts'[i] = posts[i]]_vars

(* A delivery has failed after its one POST.                               *)
C27_Witness ==
    \E i \in DOMAIN posts : posts[i].outcome = "failed" /\ posts[i].attempts = 1

----------------------------------------------------------------------------
(* The sweep task.                                                         *)

(* C28: a record that has expired is eventually out of the store, whether  *)
(* or not a request names its key, and stays expired until then unless a   *)
(* create puts a new record at the key; the write lock is free before and  *)
(* after every sweep, and whoever holds it is a client in a request.       *)
C28_ExpiredEventuallySwept ==
    /\ \A k \in OneKey : Expired(secrets, k, now) ~> ~Expired(secrets, k, now)
    /\ [][/\ sweep => writer = None /\ writer' = None
          /\ \A k \in OneKey :
                Expired(secrets, k, now) /\ Stored(secrets', k) /\ ~CreateReq(SweepCreates)
                    => Expired(secrets', k, now')]_vars
    /\ [](writer # None => Unwrap(writer) \in Clients)

(* The key was created with a TTL of a second and is out of the store      *)
(* while the response of that create is still the latest one: no request   *)
(* has named the key since, the sweep removed the record.                  *)
C28_Witness ==
    /\ resp.op = "create" /\ resp.status = 201
    /\ "a" \notin DOMAIN secrets
    /\ now > 0
    /\ hist["a"] = None

----------------------------------------------------------------------------
(* The TTL of a put.                                                       *)

(* A create of the record r.key with r.ttl_seconds was answered 201.       *)
PutWithTtl(r) ==
    /\ \E valid \in Validities :
          create_secret(r.key, r.value, r.ttl_seconds, r.max_reads, r.delete, valid)
    /\ resp'.status = 201
    /\ IsSome(r.ttl_seconds)

(* C29: every stored record with expires_at set has expires_at >           *)
(* created_at, and directly after a put with TTL T it has expires_at =     *)
(* created_at + T, for every ttl_seconds the create request accepts.       *)
C29_ExpiresAfterCreatedByTtl ==
    [][/\ \A k \in DOMAIN secrets' :
             IsSome(secrets'[k].expires_at) =>
                 Unwrap(secrets'[k].expires_at) > secrets'[k].created_at
       /\ \A r \in SpecCreates :
             PutWithTtl(r) =>
                 secrets'[r.key].expires_at
                     = Some(secrets'[r.key].created_at + Unwrap(r.ttl_seconds))]_vars

(* C29 without the strictness: expires_at is never before created_at, and  *)
(* directly after a put with TTL T it is created_at + T.                   *)
C29_ExpiresNotBeforeCreated ==
    [][/\ \A k \in DOMAIN secrets' :
             IsSome(secrets'[k].expires_at) =>
                 Unwrap(secrets'[k].expires_at) >= secrets'[k].created_at
       /\ \A r \in SpecCreates :
             PutWithTtl(r) =>
                 secrets'[r.key].expires_at
                     = Some(secrets'[r.key].created_at + Unwrap(r.ttl_seconds))]_vars

----------------------------------------------------------------------------
(* The rotate command and sirr.key.                                        *)

(* C31: sirr.key changes only in the step of the rotate command that       *)
(* follows a successful return of rotate, and then to the key the records  *)
(* were re-encrypted under; when reading the key, opening the store,       *)
(* computing the version or rotate itself fails, the command exits with an *)
(* error and sirr.key holds the key it held.                               *)
C31_KeyWrittenOnlyAfterRotate ==
    [][/\ keyfile' # keyfile =>
            /\ cmd_rotate_write_key
            /\ resp = Exit(0, "running", None)
            /\ keyfile' = Unwrap(rot).key
            /\ \A k \in DOMAIN secrets : Decrypts(secrets, k, keyfile')
       /\ \A io \in RotateIo :
            cmd_rotate(io) =>
                /\ keyfile' = keyfile
                /\ (io # "ok" \/ Overflows \/ ~StoreRotate(secrets, keyfile, generate_key,
                                                            max_key_version(secrets) + 1).ok)
                     => /\ resp'.status = 1
                        /\ rot' = None]_vars

(* The command failed in rotate itself after an earlier run had generated  *)
(* a key that never reached sirr.key.                                      *)
C31_Witness ==
    /\ resp.op = "rotate" /\ resp.kind = "rotate failed"
    /\ keyfile < keygen
    /\ rot = None

KeyFileOpensStore == \A k \in DOMAIN secrets : Decrypts(secrets, k, keyfile)

(* C32: whenever the rotate command is not running (it has not started, it *)
(* has ended, it has failed or it was killed), the key held in sirr.key    *)
(* decrypts every record of the store.                                     *)
C32_KeyFileDecryptsEveryRecord == rot = None => KeyFileOpensStore

(* C32 for the runs of the command that end by themselves: a run that      *)
(* fails before rotate commits, and a run that writes sirr.key, leave a    *)
(* key file that decrypts every record if the key file did before.         *)
C32_CompletedRunsKeepTheKey ==
    [][/\ (cmd_rotate_store /\ rot' = None /\ KeyFileOpensStore) =>
            \A k \in DOMAIN secrets' : Decrypts(secrets', k, keyfile')
       /\ cmd_rotate_write_key =>
            \A k \in DOMAIN secrets' : Decrypts(secrets', k, keyfile')]_vars

----------------------------------------------------------------------------
(* Concurrent creates on a Free instance.                                  *)

(* C33: on a Free instance the number of unexpired records never exceeds   *)
(* FREE_TIER_LIMIT, whatever the interleaving of the creates.              *)
C33_FreeNeverOverLimit ==
    license = "Free" => Cardinality(Unexpired) <= FREE_TIER_LIMIT

(* What the gate does guarantee: a put made while the answer of the gate   *)
(* is still true of the store (no other put has filled the instance since  *)
(* the check) leaves the instance within the limit.                        *)
C33_WithinLimitWhileGateHolds ==
    [][\A c \in Clients :
          (/\ create_put(c)
           /\ license = "Free"
           /\ ~at_free_tier_limit(StoreList(secrets, now))) =>
              Cardinality({k \in DOMAIN secrets' : ~Expired(secrets', k, now')})
                  <= FREE_TIER_LIMIT]_vars

====
